---- MODULE Spec2Model ----
(***************************************************************************)
(* Promotion and source-change workflows of src/utils/test/common.ts,      *)
(* modelled as one invocation of one of the three exported workflows.      *)
(*                                                                         *)
(* An async function runs synchronously between two awaits, so every      *)
(* action below is one such segment: it takes the settlement (value or     *)
(* rejection) of the call the function is suspended on, runs the code up   *)
(* to the next await and issues that call.  `inflight` holds the calls     *)
(* issued and not yet settled, `calls` the calls in the order issued.      *)
(*                                                                         *)
(* The CI clients of src/api/ci follow, each under a specification of its  *)
(* own: the polling wait of JenkinsClient (PollSpec, FairPollSpec), the    *)
(* retried wait of AzureCI (RetrySpec), the pure status and trigger        *)
(* functions applied to one argument (PureSpec), the lookup of a build by  *)
(* commit (ScanSpec), the lookup of a pipeline of AzureCI (LookupSpec) and *)
(* its use by the promotion (RaceSpec), the status re-fetch (RefetchSpec), *)
(* the in-flight listings (InFlightSpec) and the post-creation commands of *)
(* src/rhtap/postcreation (AuthSpec, StrategySpec).                        *)
(***************************************************************************)
EXTENDS Naturals, Sequences, FiniteSets

VARIABLES
    fn,            \* the workflow that was invoked
    side,          \* side of the unresolved merge hunk common.ts:51-61 that is built
    environment,   \* the `environment` argument
    pc,            \* the await the function is suspended on, "begin" or "done"
    inflight,      \* collaborator calls issued and not yet settled
    calls,         \* collaborator calls in the order they were issued
    application,   \* const application
    pr,            \* const pr / const pullRequest
    pipeline,      \* const pipeline
    pipelineStatus,\* const pipelineStatus
    mergedPR,      \* const mergedPR
    pushPipeline,  \* const pushPipeline
    pushStatus,    \* const pushStatus
    commitSha,     \* const commitSha
    syncResult,    \* const syncResult
    error,         \* the error that left the function (NoError while none)
    logged,        \* what the catch block wrote with console.error
    outcome        \* "running", "returned" or "thrown"

\* JenkinsClient.waitForBuildCompletion
VARIABLES
    pollPc,         \* "idle", "getBuild" (awaiting the fetch), "sleep" (awaiting the timer), "done"
    now,            \* Date.now()
    startTime,      \* const startTime
    timeoutMs,      \* the timeoutMs argument
    pollIntervalMs, \* the pollIntervalMs argument
    buildInfo,      \* let buildInfo
    fetched,        \* the builds the fetches returned, in order
    rejected,       \* number of fetches that rejected
    sleeps,         \* number of interval sleeps completed
    pollOutcome,    \* "running", "returned" or "thrown"
    pollError,      \* the error that left the wait (NoError while none)
    cancelRequested \* an external cancellation signal raised by the host

\* AzureCI.waitForAllPipelineRunsToFinish
VARIABLES
    retryPc,        \* "idle", "getPipelineIdByName", "listPipelineRuns", "done"
    attempts,       \* attempts of the retried function started so far
    pipelineId,     \* const pipelineId of the current attempt
    pipelineRuns,   \* const pipelineRuns of the current attempt
    failures,       \* the errors the attempts threw, in order
    retryOutcome,   \* "running", "returned" or "thrown"
    retryError      \* the error that left the function (NoError while none)

\* Pure functions of the clients: the call under evaluation.
VARIABLES
    callee,         \* the function applied ("none" while none)
    argument,       \* its argument
    result          \* its result (NotReturned until it has returned)

\* JenkinsClient.getBuildByCommitSha
VARIABLES
    scanPc,           \* "idle", "begin", "getJob", "getBuild" or "done"
    jenkinsJob,       \* the builds the Jenkins server holds for the job, as listed
    scanCommitSha,    \* the `commitSha` argument
    maxBuildsToCheck, \* the `maxBuildsToCheck` argument
    buildsToCheck,    \* const buildsToCheck
    getBuildCalls,    \* calls of getBuild issued so far
    matchingBuilds,   \* const matchingBuilds
    scanOutcome,      \* "running", "returned" or "thrown"
    scanResult        \* the value returned, or the error thrown

\* AzureCI.getPipeline
VARIABLES
    lookupPc,         \* "idle", "begin", the call awaited, or "done"
    azureDefinition,  \* the pipeline definition the server holds for the component, or Null
    azureRuns,        \* the runs of that pipeline, as the server lists them
    pullRequest,      \* the `pullRequest` argument
    wantedStatus,     \* the `pipelineStatus` argument (NoString when omitted)
    eventType,        \* the `eventType` argument (NoString when omitted)
    lookupQuery,      \* the options of the run query that was issued
    lookupFault,      \* whether a request of the lookup failed
    lookupOutcome,    \* "running", "returned" or "thrown"
    lookupResult      \* the value returned

\* AzureCI.checkPipelineStatus
VARIABLES
    statusPc,         \* "idle", "begin", "getPipelineRun" or "done"
    checkedPipeline,  \* the `pipeline` argument
    statusRequest,    \* the run the request of getPipelineRun addresses
    statusOutcome,    \* "running", "returned" or "thrown"
    statusResult      \* the status returned, or the error thrown

\* AzureClient.getRunningPipelineRuns and JenkinsClient.getRunningBuilds
VARIABLES
    listingCallee,    \* which of the two is called ("none" while none)
    listingPc,        \* "idle", "begin", the call awaited, or "done"
    jenkinsBuilds,    \* the builds of the job, as the Jenkins server holds them
    getBuildsFetched, \* the builds getBuild has resolved with so far, in order
    runningBuilds,    \* const runningBuilds
    listingOutcome,   \* "running", "returned" or "thrown"
    listingResult     \* the value returned, or the error thrown

\* AuthorizeAzurePipeline.execute
VARIABLES
    authPc,           \* "idle", "begin", "ensureServicesInitialized", "all" or "done"
    groupPc,          \* authorizeForVariableGroup: the call awaited, "resolved" or "rejected"
    poolPc,           \* authorizePipelineForAgentPool: likewise
    promiseAll,       \* the promise of Promise.all: pending, fulfilled or rejected
    authRequests,     \* the requests sent to the provider, in the order sent
    authLog,          \* what logStart and logComplete wrote
    authOutcome,      \* "running", "returned" or "thrown"
    authError         \* the error that left execute (NoError while none)

\* AzureCIPostCreateActionStrategy.execute
VARIABLES
    strategyCopy,     \* which copy of the class is built
    commandPlan,      \* how the execute of each command will settle
    commandsStarted,  \* the commands whose execute was called, in order
    strategyPc,       \* "idle", "begin", "execute" or "done"
    strategyLog,      \* what console.log and console.error wrote
    strategyOutcome,  \* "running", "returned" or "thrown"
    strategyError     \* the error that left execute (NoError while none)

locals == <<application, pr, pipeline, pipelineStatus, mergedPR, pushPipeline,
            pushStatus, commitSha, syncResult>>
input  == <<fn, side, environment>>
poller == <<pollPc, now, startTime, timeoutMs, pollIntervalMs, buildInfo, fetched,
            rejected, sleeps, pollOutcome, pollError, cancelRequested>>
retrier == <<retryPc, attempts, pipelineId, pipelineRuns, failures, retryOutcome,
             retryError>>
pure   == <<callee, argument, result>>
scanner == <<scanPc, jenkinsJob, scanCommitSha, maxBuildsToCheck, buildsToCheck,
             getBuildCalls, matchingBuilds, scanOutcome, scanResult>>
\* The lookups of a build, and of a pipeline, by commit.
lookup == <<lookupPc, azureDefinition, azureRuns, pullRequest, wantedStatus, eventType,
            lookupQuery, lookupFault, lookupOutcome, lookupResult>>
refetch == <<statusPc, checkedPipeline, statusRequest, statusOutcome, statusResult>>
listing == <<listingCallee, listingPc, jenkinsBuilds, getBuildsFetched, runningBuilds,
             listingOutcome, listingResult>>
auth == <<authPc, groupPc, poolPc, promiseAll, authRequests, authLog, authOutcome, authError>>
strategy == <<strategyCopy, commandPlan, commandsStarted, strategyPc, strategyLog,
              strategyOutcome, strategyError>>
\* The status re-fetch, the in-flight listings and the post-creation commands.
extras == <<refetch, listing, auth, strategy>>
lookups == <<scanner, lookup, extras>>
\* Everything outside the workflows of common.ts.
clients == <<poller, retrier, pure, lookups>>
workflow == <<fn, side, environment, pc, inflight, calls, application, pr, pipeline,
              pipelineStatus, mergedPR, pushPipeline, pushStatus, commitSha,
              syncResult, error, logged, outcome>>
vars   == <<workflow, clients>>

(***************************************************************************)
(* Values                                                                  *)
(***************************************************************************)
WithPR    == "promoteToEnvironmentWithPR"
WithoutPR == "promoteToEnvironmentWithoutPR"
SourceChange == "handleSourceRepoCodeChanges"
Workflows == {WithPR, WithoutPR, SourceChange}

Sides == {"upstream", "stashed"}

Environments == {"development", "stage", "prod"}

Shas == {"deadbeef", "cafef00d"}

SyncMessages == {"in sync", "out of sync"}

PipelineStatus == {"PENDING", "RUNNING", "SUCCESS", "FAILURE", "CANCELLED", "UNKNOWN"}

Terminal == {"SUCCESS", "FAILURE", "CANCELLED"}

EventType == {"PULL_REQUEST", "PUSH"}

\* Values of object-typed locals that hold no object.
Null == [null |-> TRUE]

Undefined == [undefined |-> TRUE]

\* `undefined` in a string-typed local.
NoString == "undefined"

NoError == [name |-> "none", message |-> << >>]

Application == [name |-> "application"]

\* A PullRequest as the orchestrator uses it: pullNumber and sha.
PullRequest(sha) == [pullNumber |-> "42", sha |-> sha]

\* A Pipeline as the orchestrator uses it: the event it was looked up for and its status.
Pipeline(event, status) == [event |-> event, status |-> status]

Call(op, arg) == [op |-> op, arg |-> arg]


(***************************************************************************)
(* Errors.  `message` is the list of the literal text and the interpolated *)
(* values of the error's message.                                          *)
(***************************************************************************)
Error(message) == [name |-> "Error", message |-> message]

\* `expect(x).not.toBeNull()` of @playwright/test throws when x is null.
ExpectNotNullError == [name |-> "ExpectError", message |-> <<"expect(received).not.toBeNull()">>]

\* A collaborator call whose promise rejects.
Rejection(op) == [name |-> "Rejected", message |-> <<op>>]

StageOf(p) == IF p.event = "PULL_REQUEST" THEN "AWAIT_PR_PIPELINE" ELSE "AWAIT_PUSH_PIPELINE"

\* expectPipelineSuccess(pipeline, ci): passes iff the pipeline it is given succeeded.
ExpectPipelineSuccessPasses(p) == p.status = "SUCCESS"

\* The error expectPipelineSuccess(pipeline, ci) throws otherwise: it reports the
\* stage of the pipeline it was given and the status observed.
ExpectPipelineSuccessError(p) ==
    [name    |-> IF p.status \in Terminal THEN "WorkflowAborted" ELSE "Timeout",
     message |-> <<StageOf(p), p.status>>]

\* ci.waitForPipelineToFinish(pipeline): the statuses it can resolve to, a terminal
\* one or, when the deadline passed first, the non-terminal one last observed.
WaitForPipelineToFinish(p) == PipelineStatus

(***************************************************************************)
(* Control                                                                 *)
(***************************************************************************)
Settle(op) == {c \in inflight : c.op # op}

\* `await` of the next call: the call `op` the function was suspended on has
\* settled, call c is issued and the function suspends on it at `label`.
Proceed(op, c, label) ==
    /\ calls' = Append(calls, c)
    /\ inflight' = Settle(op) \cup {c}
    /\ pc' = label
    /\ UNCHANGED <<error, logged, outcome>>

\* Normal return of the workflow.
Return(op) ==
    /\ inflight' = Settle(op)
    /\ pc' = "done"
    /\ outcome' = "returned"
    /\ UNCHANGED <<calls, error, logged>>

\* `throw error` at the end of a catch block, after console.error(log).
Rethrow(op, e, log) ==
    /\ inflight' = Settle(op)
    /\ pc' = "done"
    /\ outcome' = "thrown"
    /\ error' = e
    /\ logged' = log
    /\ UNCHANGED calls

\* Variant of CatchWithPR: the catch block throws a new error in place of the caught one.
CatchWithPR_ThrowsNewError(op, e) ==
    Rethrow(op, Error(<<"Promotion failed">>),
            <<"Error promoting application to", environment, e.message>>)

CatchWithPR(op, e) ==
    Rethrow(op, e, <<"Error promoting application to", environment, e.message>>)

\* Variant of CatchWithoutPR: the logged line leaves the environment out.
CatchWithoutPR_LogsMessageOnly(op, e) ==
    Rethrow(op, e, <<"Error directly promoting application", e.message>>)

CatchWithoutPR(op, e) ==
    Rethrow(op, e, <<"Error directly promoting application to", environment, e.message>>)

CatchSourceChange(op, e) ==
    Rethrow(op, e, <<"Error handling source repo code changes", e.message>>)

\* The messages of the errors a failed request can carry.
Messages == {"Request failed with status code 500", "timeout exceeded"}

\* The errors of the attempts so far, as async-retry keeps them: the number of
\* errors per message, the error mainError() selects (the one whose message
\* occurred most often, the later one on a tie) and the last error.
NoFailures ==
    [count |-> [m \in Messages |-> 0], total |-> 0, main |-> NoError, mainCount |-> 0,
     last |-> NoError]

\* The result of a call that has not returned.
NotReturned == "<not returned>"

\* The state of a group of variables while the code it belongs to is not running.
PollerIdle ==
    /\ pollPc = "idle"
    /\ now = 0
    /\ startTime = 0
    /\ timeoutMs = 0
    /\ pollIntervalMs = 0
    /\ buildInfo = Undefined
    /\ fetched = << >>
    /\ rejected = 0
    /\ sleeps = 0
    /\ pollOutcome = "running"
    /\ pollError = NoError
    /\ cancelRequested = FALSE

RetrierIdle ==
    /\ retryPc = "idle"
    /\ attempts = 0
    /\ pipelineId = Undefined
    /\ pipelineRuns = << >>
    /\ failures = NoFailures
    /\ retryOutcome = "running"
    /\ retryError = NoError

PureIdle ==
    /\ callee = "none"
    /\ argument = Undefined
    /\ result = NotReturned

ScannerIdle ==
    /\ scanPc = "idle"
    /\ jenkinsJob = << >>
    /\ scanCommitSha = << >>
    /\ maxBuildsToCheck = 0
    /\ buildsToCheck = << >>
    /\ getBuildCalls = 0
    /\ matchingBuilds = << >>
    /\ scanOutcome = "running"
    /\ scanResult = Undefined

LookupIdle ==
    /\ lookupPc = "idle"
    /\ azureDefinition = Null
    /\ azureRuns = << >>
    /\ pullRequest = Undefined
    /\ wantedStatus = NoString
    /\ eventType = NoString
    /\ lookupQuery = Undefined
    /\ lookupFault = FALSE
    /\ lookupOutcome = "running"
    /\ lookupResult = Undefined

RefetchIdle ==
    /\ statusPc = "idle"
    /\ checkedPipeline = Undefined
    /\ statusRequest = Undefined
    /\ statusOutcome = "running"
    /\ statusResult = NoString

ListingIdle ==
    /\ listingCallee = "none"
    /\ listingPc = "idle"
    /\ jenkinsBuilds = << >>
    /\ getBuildsFetched = << >>
    /\ runningBuilds = << >>
    /\ listingOutcome = "running"
    /\ listingResult = << >>

AuthIdle ==
    /\ authPc = "idle"
    /\ groupPc = "idle"
    /\ poolPc = "idle"
    /\ promiseAll = [state |-> "pending"]
    /\ authRequests = << >>
    /\ authLog = << >>
    /\ authOutcome = "running"
    /\ authError = NoError

StrategyIdle ==
    /\ strategyCopy = "none"
    /\ commandPlan = << >>
    /\ commandsStarted = << >>
    /\ strategyPc = "idle"
    /\ strategyLog = << >>
    /\ strategyOutcome = "running"
    /\ strategyError = NoError

ExtrasIdle ==
    /\ RefetchIdle
    /\ ListingIdle
    /\ AuthIdle
    /\ StrategyIdle

LookupsIdle ==
    /\ ScannerIdle
    /\ LookupIdle
    /\ ExtrasIdle

WorkflowIdle ==
    /\ fn = WithPR
    /\ side = "upstream"
    /\ environment = "development"
    /\ pc = "idle"
    /\ inflight = {}
    /\ calls = << >>
    /\ application = Undefined
    /\ pr = Undefined
    /\ pipeline = Undefined
    /\ pipelineStatus = NoString
    /\ mergedPR = Undefined
    /\ pushPipeline = Undefined
    /\ pushStatus = NoString
    /\ commitSha = NoString
    /\ syncResult = Undefined
    /\ error = NoError
    /\ logged = << >>
    /\ outcome = "running"

Init ==
    /\ fn \in Workflows
    /\ side \in (IF fn = WithPR THEN Sides ELSE {"upstream"})
    /\ environment \in (IF fn = SourceChange THEN {NoString} ELSE Environments)
    /\ pc = "begin"
    /\ inflight = {}
    /\ calls = << >>
    /\ application = Undefined
    /\ pr = Undefined
    /\ pipeline = Undefined
    /\ pipelineStatus = NoString
    /\ mergedPR = Undefined
    /\ pushPipeline = Undefined
    /\ pushStatus = NoString
    /\ commitSha = NoString
    /\ syncResult = Undefined
    /\ error = NoError
    /\ logged = << >>
    /\ outcome = "running"
    /\ PollerIdle
    /\ RetrierIdle
    /\ PureIdle
    /\ LookupsIdle

(***************************************************************************)
(* promoteToEnvironmentWithPR                                              *)
(***************************************************************************)
\* The lookup of the PR pipeline, by the side of the hunk that is built.
PRPipelineLookup ==
    IF side = "upstream" THEN Call("getPipeline", "PULL_REQUEST")
    ELSE Call("getPipelineFromPullRequest", "PULL_REQUEST")

WithPR_Begin ==
    /\ fn = WithPR /\ pc = "begin"
    /\ Proceed("begin", Call("getApplication", environment), "getApplication")
    /\ UNCHANGED <<clients, input, locals>>

WithPR_GetApplicationSettles ==
    /\ fn = WithPR /\ pc = "getApplication"
    /\ \/ /\ CatchWithPR("getApplication", Rejection("getApplication"))
          /\ UNCHANGED application
       \/ /\ application' = Null
          /\ CatchWithPR("getApplication", ExpectNotNullError)
       \/ /\ application' = Application
          /\ Proceed("getApplication",
                     Call("createPromotionPullRequestOnGitopsRepo", environment),
                     "createPromotionPullRequestOnGitopsRepo")
    /\ UNCHANGED <<clients, input, pr, pipeline, pipelineStatus, mergedPR, pushPipeline,
                   pushStatus, commitSha, syncResult>>

WithPR_CreatePRSettles ==
    /\ fn = WithPR /\ pc = "createPromotionPullRequestOnGitopsRepo"
    /\ \/ /\ CatchWithPR("createPromotionPullRequestOnGitopsRepo",
                         Rejection("createPromotionPullRequestOnGitopsRepo"))
          /\ UNCHANGED pr
       \/ \E sha \in Shas :
          /\ pr' = PullRequest(sha)
          /\ Proceed("createPromotionPullRequestOnGitopsRepo", PRPipelineLookup,
                     "getPipeline")
    /\ UNCHANGED <<clients, input, application, pipeline, pipelineStatus, mergedPR,
                   pushPipeline, pushStatus, commitSha, syncResult>>

\* Variant of WithPR_GetPipelineSettles: the `if (!pipeline)` check is missing
\* and the workflow goes on to the merge with no pipeline.
WithPR_GetPipelineSettles_NullProceeds ==
    /\ fn = WithPR /\ pc = "getPipeline"
    /\ \/ /\ CatchWithPR(PRPipelineLookup.op, Rejection(PRPipelineLookup.op))
          /\ UNCHANGED pipeline
       \/ /\ pipeline' = Null
          /\ Proceed(PRPipelineLookup.op, Call("mergePullRequest", pr.sha),
                     "mergePullRequest")
       \/ /\ pipeline' = Pipeline("PULL_REQUEST", "RUNNING")
          /\ Proceed(PRPipelineLookup.op,
                     Call("waitForPipelineToFinish", "PULL_REQUEST"),
                     "waitForPipelineToFinish")
    /\ UNCHANGED <<clients, input, application, pr, pipelineStatus, mergedPR, pushPipeline,
                   pushStatus, commitSha, syncResult>>

WithPR_GetPipelineSettles ==
    /\ fn = WithPR /\ pc = "getPipeline"
    /\ \/ /\ CatchWithPR(PRPipelineLookup.op, Rejection(PRPipelineLookup.op))
          /\ UNCHANGED pipeline
       \/ /\ pipeline' = Null
          /\ CatchWithPR(PRPipelineLookup.op,
                         Error(<<"No pipeline was triggered by the promotion PR">>))
       \/ /\ pipeline' = Pipeline("PULL_REQUEST", "RUNNING")
          /\ Proceed(PRPipelineLookup.op,
                     Call("waitForPipelineToFinish", "PULL_REQUEST"),
                     "waitForPipelineToFinish")
    /\ UNCHANGED <<clients, input, application, pr, pipelineStatus, mergedPR, pushPipeline,
                   pushStatus, commitSha, syncResult>>

\* Variant of WithPR_WaitSettles: the expectPipelineSuccess line is missing and the
\* merge follows the wait directly.
WithPR_WaitSettles_NoExpect ==
    /\ fn = WithPR /\ pc = "waitForPipelineToFinish"
    /\ \/ /\ CatchWithPR("waitForPipelineToFinish", Rejection("waitForPipelineToFinish"))
          /\ UNCHANGED <<pipeline, pipelineStatus>>
       \/ \E s \in WaitForPipelineToFinish(pipeline) :
          /\ pipelineStatus' = s
          /\ pipeline' = [pipeline EXCEPT !.status = s]
          /\ Proceed("waitForPipelineToFinish", Call("mergePullRequest", pr.sha),
                     "mergePullRequest")
    /\ UNCHANGED <<clients, input, application, pr, mergedPR, pushPipeline, pushStatus,
                   commitSha, syncResult>>

WithPR_WaitSettles ==
    /\ fn = WithPR /\ pc = "waitForPipelineToFinish"
    /\ \/ /\ CatchWithPR("waitForPipelineToFinish", Rejection("waitForPipelineToFinish"))
          /\ UNCHANGED <<pipeline, pipelineStatus>>
       \/ \E s \in WaitForPipelineToFinish(pipeline) :
          /\ pipelineStatus' = s
          /\ pipeline' = [pipeline EXCEPT !.status = s]
          /\ Proceed("waitForPipelineToFinish",
                     Call("expectPipelineSuccess", pipeline.event),
                     "expectPipelineSuccess")
    /\ UNCHANGED <<clients, input, application, pr, mergedPR, pushPipeline, pushStatus,
                   commitSha, syncResult>>

\* Variant of WithPR_ExpectSettles: expectPipelineSuccess is called without await,
\* so its rejection never reaches the try block.
WithPR_ExpectSettles_NotAwaited ==
    /\ fn = WithPR /\ pc = "expectPipelineSuccess"
    /\ Proceed("expectPipelineSuccess", Call("mergePullRequest", pr.sha),
               "mergePullRequest")
    /\ UNCHANGED <<clients, input, locals>>

WithPR_ExpectSettles ==
    /\ fn = WithPR /\ pc = "expectPipelineSuccess"
    /\ IF ExpectPipelineSuccessPasses(pipeline)
       THEN Proceed("expectPipelineSuccess", Call("mergePullRequest", pr.sha),
                    "mergePullRequest")
       ELSE CatchWithPR("expectPipelineSuccess", ExpectPipelineSuccessError(pipeline))
    /\ UNCHANGED <<clients, input, locals>>

\* Variant of WithPR_MergeSettles: cd.syncApplication is called without await, so
\* the wait for the sync is issued while it is still in flight.
WithPR_MergeSettles_SyncNotAwaited ==
    /\ fn = WithPR /\ pc = "mergePullRequest"
    /\ \/ /\ CatchWithPR("mergePullRequest", Rejection("mergePullRequest"))
          /\ UNCHANGED mergedPR
       \/ \E sha \in Shas :
          /\ mergedPR' = PullRequest(sha)
          /\ calls' = calls \o <<Call("syncApplication", environment),
                                 Call("waitUntilApplicationIsSynced", sha)>>
          /\ inflight' = Settle("mergePullRequest")
                            \cup {Call("syncApplication", environment),
                                  Call("waitUntilApplicationIsSynced", sha)}
          /\ pc' = "waitUntilApplicationIsSynced"
          /\ UNCHANGED <<error, logged, outcome>>
    /\ UNCHANGED <<clients, input, application, pr, pipeline, pipelineStatus, pushPipeline,
                   pushStatus, commitSha, syncResult>>

WithPR_MergeSettles ==
    /\ fn = WithPR /\ pc = "mergePullRequest"
    /\ \/ /\ CatchWithPR("mergePullRequest", Rejection("mergePullRequest"))
          /\ UNCHANGED mergedPR
       \/ \E sha \in Shas :
          /\ mergedPR' = PullRequest(sha)
          /\ Proceed("mergePullRequest", Call("syncApplication", environment),
                     "syncApplication")
    /\ UNCHANGED <<clients, input, application, pr, pipeline, pipelineStatus, pushPipeline,
                   pushStatus, commitSha, syncResult>>

\* Variant of WithPR_SyncSettles: the sync is awaited for the SHA of the pull
\* request as created, not as merged.
WithPR_SyncSettles_WaitsForPRSha ==
    /\ fn = WithPR /\ pc = "syncApplication"
    /\ \/ CatchWithPR("syncApplication", Rejection("syncApplication"))
       \/ Proceed("syncApplication", Call("waitUntilApplicationIsSynced", pr.sha),
                  "waitUntilApplicationIsSynced")
    /\ UNCHANGED <<clients, input, locals>>

WithPR_SyncSettles ==
    /\ fn = WithPR /\ pc = "syncApplication"
    /\ \/ CatchWithPR("syncApplication", Rejection("syncApplication"))
       \/ Proceed("syncApplication",
                  Call("waitUntilApplicationIsSynced", mergedPR.sha),
                  "waitUntilApplicationIsSynced")
    /\ UNCHANGED <<clients, input, locals>>

\* Variant of WithPR_WaitSyncSettles: the test of syncResult.synced is inverted.
WithPR_WaitSyncSettles_Inverted ==
    /\ fn = WithPR /\ pc = "waitUntilApplicationIsSynced"
    /\ \/ /\ CatchWithPR("waitUntilApplicationIsSynced",
                         Rejection("waitUntilApplicationIsSynced"))
          /\ UNCHANGED syncResult
       \/ \E synced \in BOOLEAN, message \in SyncMessages :
          /\ syncResult' = [synced |-> synced, message |-> message]
          /\ IF synced
             THEN CatchWithPR("waitUntilApplicationIsSynced",
                              Error(<<"Failed to sync application:", message>>))
             ELSE Return("waitUntilApplicationIsSynced")
    /\ UNCHANGED <<clients, input, application, pr, pipeline, pipelineStatus, mergedPR,
                   pushPipeline, pushStatus, commitSha>>

WithPR_WaitSyncSettles ==
    /\ fn = WithPR /\ pc = "waitUntilApplicationIsSynced"
    /\ \/ /\ CatchWithPR("waitUntilApplicationIsSynced",
                         Rejection("waitUntilApplicationIsSynced"))
          /\ UNCHANGED syncResult
       \/ \E synced \in BOOLEAN, message \in SyncMessages :
          /\ syncResult' = [synced |-> synced, message |-> message]
          /\ IF ~synced
             THEN CatchWithPR("waitUntilApplicationIsSynced",
                              Error(<<"Failed to sync application:", message>>))
             ELSE Return("waitUntilApplicationIsSynced")
    /\ UNCHANGED <<clients, input, application, pr, pipeline, pipelineStatus, mergedPR,
                   pushPipeline, pushStatus, commitSha>>

promoteToEnvironmentWithPR ==
    \/ WithPR_Begin
    \/ WithPR_GetApplicationSettles
    \/ WithPR_CreatePRSettles
    \/ WithPR_GetPipelineSettles
    \/ WithPR_WaitSettles
    \/ WithPR_ExpectSettles
    \/ WithPR_MergeSettles
    \/ WithPR_SyncSettles
    \/ WithPR_WaitSyncSettles

(***************************************************************************)
(* promoteToEnvironmentWithoutPR                                           *)
(***************************************************************************)
WithoutPR_Begin ==
    /\ fn = WithoutPR /\ pc = "begin"
    /\ Proceed("begin", Call("getApplication", environment), "getApplication")
    /\ UNCHANGED <<clients, input, locals>>

\* Variant of WithoutPR_GetApplicationSettles: the expect on the application is
\* missing, so a null application goes on to the commit.
WithoutPR_GetApplicationSettles_NoExpect ==
    /\ fn = WithoutPR /\ pc = "getApplication"
    /\ \/ /\ CatchWithoutPR("getApplication", Rejection("getApplication"))
          /\ UNCHANGED application
       \/ \E a \in {Null, Application} :
          /\ application' = a
          /\ Proceed("getApplication",
                     Call("createPromotionCommitOnGitOpsRepo", environment),
                     "createPromotionCommitOnGitOpsRepo")
    /\ UNCHANGED <<clients, input, pr, pipeline, pipelineStatus, mergedPR, pushPipeline,
                   pushStatus, commitSha, syncResult>>

WithoutPR_GetApplicationSettles ==
    /\ fn = WithoutPR /\ pc = "getApplication"
    /\ \/ /\ CatchWithoutPR("getApplication", Rejection("getApplication"))
          /\ UNCHANGED application
       \/ /\ application' = Null
          /\ CatchWithoutPR("getApplication", ExpectNotNullError)
       \/ /\ application' = Application
          /\ Proceed("getApplication",
                     Call("createPromotionCommitOnGitOpsRepo", environment),
                     "createPromotionCommitOnGitOpsRepo")
    /\ UNCHANGED <<clients, input, pr, pipeline, pipelineStatus, mergedPR, pushPipeline,
                   pushStatus, commitSha, syncResult>>

WithoutPR_CommitSettles ==
    /\ fn = WithoutPR /\ pc = "createPromotionCommitOnGitOpsRepo"
    /\ \/ /\ CatchWithoutPR("createPromotionCommitOnGitOpsRepo",
                            Rejection("createPromotionCommitOnGitOpsRepo"))
          /\ UNCHANGED commitSha
       \/ \E sha \in Shas :
          /\ commitSha' = sha
          /\ Proceed("createPromotionCommitOnGitOpsRepo",
                     Call("syncApplication", environment), "syncApplication")
    /\ UNCHANGED <<clients, input, application, pr, pipeline, pipelineStatus, mergedPR,
                   pushPipeline, pushStatus, syncResult>>

\* Variant of WithoutPR_SyncSettles: the revision argument of the wait is left out.
WithoutPR_SyncSettles_NoRevision ==
    /\ fn = WithoutPR /\ pc = "syncApplication"
    /\ \/ CatchWithoutPR("syncApplication", Rejection("syncApplication"))
       \/ Proceed("syncApplication", Call("waitUntilApplicationIsSynced", NoString),
                  "waitUntilApplicationIsSynced")
    /\ UNCHANGED <<clients, input, locals>>

WithoutPR_SyncSettles ==
    /\ fn = WithoutPR /\ pc = "syncApplication"
    /\ \/ CatchWithoutPR("syncApplication", Rejection("syncApplication"))
       \/ Proceed("syncApplication", Call("waitUntilApplicationIsSynced", commitSha),
                  "waitUntilApplicationIsSynced")
    /\ UNCHANGED <<clients, input, locals>>

WithoutPR_WaitSyncSettles ==
    /\ fn = WithoutPR /\ pc = "waitUntilApplicationIsSynced"
    /\ \/ /\ CatchWithoutPR("waitUntilApplicationIsSynced",
                            Rejection("waitUntilApplicationIsSynced"))
          /\ UNCHANGED syncResult
       \/ \E synced \in BOOLEAN, message \in SyncMessages :
          /\ syncResult' = [synced |-> synced, message |-> message]
          /\ IF ~synced
             THEN CatchWithoutPR("waitUntilApplicationIsSynced",
                                 Error(<<"Failed to sync application:", message>>))
             ELSE Return("waitUntilApplicationIsSynced")
    /\ UNCHANGED <<clients, input, application, pr, pipeline, pipelineStatus, mergedPR,
                   pushPipeline, pushStatus, commitSha>>

promoteToEnvironmentWithoutPR ==
    \/ WithoutPR_Begin
    \/ WithoutPR_GetApplicationSettles
    \/ WithoutPR_CommitSettles
    \/ WithoutPR_SyncSettles
    \/ WithoutPR_WaitSyncSettles

(***************************************************************************)
(* handleSourceRepoCodeChanges.  Of the hunk common.ts:183-217 only the    *)
(* upstream side leaves the try block well formed; it is the one modelled. *)
(***************************************************************************)
Source_Begin ==
    /\ fn = SourceChange /\ pc = "begin"
    /\ Proceed("begin", Call("createSamplePullRequestOnSourceRepo", "source"),
               "createSamplePullRequestOnSourceRepo")
    /\ UNCHANGED <<clients, input, locals>>

Source_CreatePRSettles ==
    /\ fn = SourceChange /\ pc = "createSamplePullRequestOnSourceRepo"
    /\ \/ /\ CatchSourceChange("createSamplePullRequestOnSourceRepo",
                               Rejection("createSamplePullRequestOnSourceRepo"))
          /\ UNCHANGED pr
       \/ \E sha \in Shas :
          /\ pr' = PullRequest(sha)
          /\ Proceed("createSamplePullRequestOnSourceRepo",
                     Call("getPipeline", "PULL_REQUEST"), "getPipeline")
    /\ UNCHANGED <<clients, input, application, pipeline, pipelineStatus, mergedPR,
                   pushPipeline, pushStatus, commitSha, syncResult>>

Source_GetPipelineSettles ==
    /\ fn = SourceChange /\ pc = "getPipeline"
    /\ \/ /\ CatchSourceChange("getPipeline", Rejection("getPipeline"))
          /\ UNCHANGED pipeline
       \/ /\ pipeline' = Null
          /\ CatchSourceChange("getPipeline",
                 Error(<<"Expected a pipeline to be triggered but none was found">>))
       \/ /\ pipeline' = Pipeline("PULL_REQUEST", "RUNNING")
          /\ Proceed("getPipeline", Call("waitForPipelineToFinish", "PULL_REQUEST"),
                     "waitForPipelineToFinish")
    /\ UNCHANGED <<clients, input, application, pr, pipelineStatus, mergedPR, pushPipeline,
                   pushStatus, commitSha, syncResult>>

Source_WaitSettles ==
    /\ fn = SourceChange /\ pc = "waitForPipelineToFinish"
    /\ \/ /\ CatchSourceChange("waitForPipelineToFinish",
                               Rejection("waitForPipelineToFinish"))
          /\ UNCHANGED <<pipeline, pipelineStatus>>
       \/ \E s \in WaitForPipelineToFinish(pipeline) :
          /\ pipelineStatus' = s
          /\ pipeline' = [pipeline EXCEPT !.status = s]
          /\ Proceed("waitForPipelineToFinish",
                     Call("expectPipelineSuccess", pipeline.event),
                     "expectPipelineSuccess")
    /\ UNCHANGED <<clients, input, application, pr, mergedPR, pushPipeline, pushStatus,
                   commitSha, syncResult>>

Source_ExpectSettles ==
    /\ fn = SourceChange /\ pc = "expectPipelineSuccess"
    /\ IF ExpectPipelineSuccessPasses(pipeline)
       THEN Proceed("expectPipelineSuccess", Call("mergePullRequest", pr.sha),
                    "mergePullRequest")
       ELSE CatchSourceChange("expectPipelineSuccess",
                              ExpectPipelineSuccessError(pipeline))
    /\ UNCHANGED <<clients, input, locals>>

Source_MergeSettles ==
    /\ fn = SourceChange /\ pc = "mergePullRequest"
    /\ \/ /\ CatchSourceChange("mergePullRequest", Rejection("mergePullRequest"))
          /\ UNCHANGED mergedPR
       \/ \E sha \in Shas :
          /\ mergedPR' = PullRequest(sha)
          /\ Proceed("mergePullRequest", Call("getPipeline", "PUSH"),
                     "getPushPipeline")
    /\ UNCHANGED <<clients, input, application, pr, pipeline, pipelineStatus, pushPipeline,
                   pushStatus, commitSha, syncResult>>

Source_GetPushPipelineSettles ==
    /\ fn = SourceChange /\ pc = "getPushPipeline"
    /\ \/ /\ CatchSourceChange("getPipeline", Rejection("getPipeline"))
          /\ UNCHANGED pushPipeline
       \/ /\ pushPipeline' = Null
          /\ CatchSourceChange("getPipeline",
                 Error(<<"Expected a push pipeline to be triggered but none was found">>))
       \/ /\ pushPipeline' = Pipeline("PUSH", "RUNNING")
          /\ Proceed("getPipeline", Call("waitForPipelineToFinish", "PUSH"),
                     "waitForPushPipelineToFinish")
    /\ UNCHANGED <<clients, input, application, pr, pipeline, pipelineStatus, mergedPR,
                   pushStatus, commitSha, syncResult>>

\* common.ts:258 passes `pipeline`, the pull-request pipeline, to expectPipelineSuccess.
Source_WaitPushSettles ==
    /\ fn = SourceChange /\ pc = "waitForPushPipelineToFinish"
    /\ \/ /\ CatchSourceChange("waitForPipelineToFinish",
                               Rejection("waitForPipelineToFinish"))
          /\ UNCHANGED <<pushPipeline, pushStatus>>
       \/ \E s \in WaitForPipelineToFinish(pushPipeline) :
          /\ pushStatus' = s
          /\ pushPipeline' = [pushPipeline EXCEPT !.status = s]
          /\ Proceed("waitForPipelineToFinish",
                     Call("expectPipelineSuccess", pipeline.event),
                     "expectPushPipelineSuccess")
    /\ UNCHANGED <<clients, input, application, pr, pipeline, pipelineStatus, mergedPR,
                   commitSha, syncResult>>

Source_ExpectPushSettles ==
    /\ fn = SourceChange /\ pc = "expectPushPipelineSuccess"
    /\ IF ExpectPipelineSuccessPasses(pipeline)
       THEN Return("expectPipelineSuccess")
       ELSE CatchSourceChange("expectPipelineSuccess",
                              ExpectPipelineSuccessError(pipeline))
    /\ UNCHANGED <<clients, input, locals>>

handleSourceRepoCodeChanges ==
    \/ Source_Begin
    \/ Source_CreatePRSettles
    \/ Source_GetPipelineSettles
    \/ Source_WaitSettles
    \/ Source_ExpectSettles
    \/ Source_MergeSettles
    \/ Source_GetPushPipelineSettles
    \/ Source_WaitPushSettles
    \/ Source_ExpectPushSettles

Next ==
    \/ promoteToEnvironmentWithPR
    \/ promoteToEnvironmentWithoutPR
    \/ handleSourceRepoCodeChanges

Spec == Init /\ [][Next]_vars

(***************************************************************************)
(* Properties                                                              *)
(***************************************************************************)
Promotions == {WithPR, WithoutPR}

Count(op) == Cardinality({i \in DOMAIN calls : calls[i].op = op})

Issued(op) == Count(op) > 0

\* The position of the first call of `op` in `calls` (0 when there is none).
FirstIndex(op) ==
    IF Issued(op) THEN CHOOSE i \in DOMAIN calls :
                          /\ calls[i].op = op
                          /\ \A j \in 1..(i - 1) : calls[j].op # op
    ELSE 0

Identifies(e, x) == \E i \in DOMAIN e.message : e.message[i] = x

\* The PR pipeline ended with an outcome other than SUCCESS: a status that is not
\* SUCCESS (a non-terminal one is the poll's timeout) or a rejected wait.
PRPipelineUnsuccessful ==
    \/ pipelineStatus \in PipelineStatus \ {"SUCCESS"}
    \/ error = Rejection("waitForPipelineToFinish")

\* C1: in promoteToEnvironmentWithPR, when the pipeline of the promotion PR ends
\* with any outcome other than SUCCESS, git.mergePullRequest is never invoked.
C1_AbortLaw ==
    (fn = WithPR /\ PRPipelineUnsuccessful) => Count("mergePullRequest") = 0

C1_Witness ==
    /\ fn = WithPR /\ pc = "done"
    /\ pipelineStatus \in {"FAILURE", "CANCELLED", "RUNNING"}
    /\ Count("expectPipelineSuccess") = 1

\* C2 (as stated): in PR-based promotion cd.syncApplication is invoked only after
\* the push pipeline of the merged PR was looked up, awaited and observed SUCCESS.
C2_SyncOnlyAfterPushPipeline ==
    (fn = WithPR /\ Issued("syncApplication")) =>
        /\ \E i \in 1..(FirstIndex("syncApplication") - 1) :
              calls[i] = Call("getPipeline", "PUSH")
        /\ \E i \in 1..(FirstIndex("syncApplication") - 1) :
              calls[i] = Call("waitForPipelineToFinish", "PUSH")
        /\ pushStatus = "SUCCESS"

\* C2 (amended): in PR-based promotion cd.syncApplication is invoked only after the
\* PR pipeline was observed SUCCESS and git.mergePullRequest has returned, and it is
\* the call that follows the merge: no push pipeline is looked up or awaited.
C2_SyncRightAfterMerge ==
    (fn = WithPR /\ Issued("syncApplication")) =>
        /\ pipelineStatus = "SUCCESS"
        /\ mergedPR \in {PullRequest(sha) : sha \in Shas}
        /\ FirstIndex("syncApplication") > 1
        /\ calls[FirstIndex("syncApplication") - 1].op = "mergePullRequest"
        /\ \A i \in DOMAIN calls : calls[i].arg # "PUSH"
        /\ pushPipeline = Undefined /\ pushStatus = NoString

C2_Witness ==
    fn = WithPR /\ pc = "syncApplication" /\ Call("syncApplication", environment) \in inflight

C4_SuccessScenario ==
    (/\ fn = WithPR /\ pc = "done"
     /\ application = Application
     /\ pr # Undefined
     /\ pipelineStatus = "SUCCESS"
     /\ mergedPR # Undefined
     /\ syncResult # Undefined
     /\ syncResult.synced) =>
        /\ outcome = "returned"
        /\ error = NoError
        /\ Count("getApplication") = 1
        /\ Count("createPromotionPullRequestOnGitopsRepo") = 1
        /\ Count("mergePullRequest") = 1
        /\ Count("syncApplication") = 1
        /\ Count("waitUntilApplicationIsSynced") = 1

C4_Witness ==
    /\ fn = WithPR /\ pc = "done" /\ outcome = "returned"
    /\ pr = PullRequest("deadbeef") /\ mergedPR = PullRequest("cafef00d")
    /\ syncResult # Undefined /\ syncResult.synced

LastIssued(cs) == IF cs = << >> THEN {} ELSE {cs[Len(cs)]}

SequentialStep ==
    fn \in Promotions =>
        /\ Cardinality(inflight') <= 1
        /\ calls' # calls =>
              /\ outcome = "running"
              /\ inflight \subseteq LastIssued(calls)
              /\ inflight' = LastIssued(calls')
        /\ outcome' # "running" => inflight' = {}

\* C5: within one promotion the stages are strictly sequential: a call is issued
\* only when every earlier call has settled, so at most one call is in flight and
\* it is the last one issued; once the promotion has ended no call is issued and
\* none is left in flight.
C5_StrictlySequential == [][SequentialStep]_vars

C5_Witness ==
    /\ fn \in Promotions /\ Len(calls) >= 4
    /\ inflight = {Call("waitUntilApplicationIsSynced", calls[Len(calls)].arg)}

\* C6: handleSourceRepoCodeChanges completes without error only if the PR pipeline
\* reached SUCCESS, and a push pipeline (the one found for the merged PR) that
\* ends FAILURE or CANCELLED makes the workflow fail.
C6_SourceChangeGate ==
    fn = SourceChange =>
        /\ outcome = "returned" => pipelineStatus = "SUCCESS"
        /\ (pc = "done" /\ pushStatus \in {"FAILURE", "CANCELLED"}) => outcome = "thrown"

\* C7: direct-commit promotion runs exactly the chain getApplication,
\* createPromotionCommitOnGitOpsRepo, syncApplication, waitUntilApplicationIsSynced
\* in that order, never calls the CI, and waits for the commit's SHA.
DirectChain ==
    <<Call("getApplication", environment),
      Call("createPromotionCommitOnGitOpsRepo", environment),
      Call("syncApplication", environment),
      Call("waitUntilApplicationIsSynced", commitSha)>>

C8_TargetGate ==
    (fn \in Promotions /\ application = Null) =>
        /\ outcome = "thrown"
        /\ Count("createPromotionPullRequestOnGitopsRepo") = 0
        /\ Count("createPromotionCommitOnGitOpsRepo") = 0
        /\ Count("mergePullRequest") = 0
        /\ Count("syncApplication") = 0

C8_Witness ==
    fn = WithoutPR /\ application = Null /\ pc = "done"

\* The revision the promotion produced.
ProducedRevision == IF fn = WithPR THEN mergedPR.sha ELSE commitSha

\* C9: a promotion returns normally only if the sync wait reported synced=true
\* for the revision the promotion produced; synced=false makes it fail with an
\* error carrying the sync message.
C9_SyncGate ==
    fn \in Promotions =>
        /\ outcome = "returned" =>
              /\ syncResult.synced
              /\ calls[Len(calls)] = Call("waitUntilApplicationIsSynced", ProducedRevision)
        /\ (syncResult # Undefined /\ ~syncResult.synced) =>
              /\ outcome = "thrown"
              /\ error = Error(<<"Failed to sync application:", syncResult.message>>)

C9_Witness ==
    /\ fn = WithPR /\ outcome = "thrown" /\ syncResult # Undefined
    /\ ~syncResult.synced /\ pr.sha # mergedPR.sha

ModeOf(f) == IF f = WithPR THEN "with pull request" ELSE "direct commit"

\* The stage whose call settled last without failing.
LastCompletedStage ==
    IF Len(calls) <= 1 THEN "none" ELSE calls[Len(calls) - 1].op

\* C10 (as stated): whatever stage a promotion fails at, the error that leaves
\* the orchestrator identifies the environment, the mode and the last completed
\* stage.
C10_ErrorIdentifiesContext ==
    (fn \in Promotions /\ outcome = "thrown") =>
        /\ Identifies(error, environment)
        /\ Identifies(error, ModeOf(fn))
        /\ Identifies(error, LastCompletedStage)

\* The errors the stages raise, before any catch block sees them.
StageErrors ==
    {Rejection(calls[i].op) : i \in DOMAIN calls}
        \cup {ExpectNotNullError,
              Error(<<"No pipeline was triggered by the promotion PR">>)}
        \cup {ExpectPipelineSuccessError(Pipeline("PULL_REQUEST", s)) : s \in PipelineStatus}
        \cup {Error(<<"Failed to sync application:", m>>) : m \in SyncMessages}

\* C10 (amended): whatever stage a promotion fails at, the catch block logs a line
\* that names the target environment and, by its wording, the mode, followed by the
\* message of the error, and the error that leaves is the stage's own error,
\* unchanged.
C10_LogsContextRethrowsUnchanged ==
    (fn \in Promotions /\ outcome = "thrown") =>
        /\ error \in StageErrors
        /\ logged = <<IF fn = WithPR THEN "Error promoting application to"
                      ELSE "Error directly promoting application to",
                      environment, error.message>>

C10_Witness ==
    /\ fn = WithoutPR /\ outcome = "thrown"
    /\ error = Error(<<"Failed to sync application:", "out of sync">>)

(***************************************************************************)
(* JenkinsClient.waitForBuildCompletion                                    *)
(*                                                                         *)
(* Time is counted in ticks of the clock Date.now() reads.  Every await is *)
(* a suspension point: the fetch and the timer each take an action to      *)
(* settle, and the clock advances while the wait is suspended.             *)
(***************************************************************************)
\* Largest timeoutMs argument explored.
MaxTimeout == 3

\* Largest pollIntervalMs argument explored.
MaxInterval == 2

\* Largest time one fetch, or the lateness of one timer, takes.
MaxLatency == 1

\* No run explored by the model needs more fetches than this; the loop itself
\* has no such limit.
MaxFetches == MaxTimeout + 2

JenkinsBuildResult == {"SUCCESS", "FAILURE", "UNSTABLE", "ABORTED", "NOT_BUILT"}

\* `null` in the result field of a build.
NoResult == "null"

\* A result string outside the enum, as the server may send one.
OtherResult == "OTHER"

JenkinsBuild(building, res) == [building |-> building, result |-> res]

\* What one fetch of a build can observe.
Builds ==
    {JenkinsBuild(TRUE, NoResult)}
        \cup {JenkinsBuild(FALSE, r) : r \in JenkinsBuildResult \cup {NoResult, OtherResult}}

TimeoutError == Error(<<"Build #${buildNumber} did not complete within the timeout period">>)

\* Variant: the check fires as soon as timeoutMs has elapsed.
TimedOut_AtTimeout(t) == t - startTime >= timeoutMs

\* Variant: no timeout check.
TimedOut_Never(t) == FALSE

\* The condition of the timeout check after a fetch that saw the build building.
TimedOut(t) == t - startTime > timeoutMs

PollInit ==
    /\ WorkflowIdle
    /\ RetrierIdle
    /\ PureIdle
    /\ LookupsIdle
    /\ pollPc = "begin"
    /\ now = 0
    /\ startTime = 0
    /\ timeoutMs \in 0..MaxTimeout
    /\ pollIntervalMs \in 1..MaxInterval
    /\ buildInfo = Undefined
    /\ fetched = << >>
    /\ rejected = 0
    /\ sleeps = 0
    /\ pollOutcome = "running"
    /\ pollError = NoError
    /\ cancelRequested = FALSE

\* Entry: startTime is read and the first fetch is issued.
Poll_Begin ==
    /\ pollPc = "begin"
    /\ startTime' = now
    /\ pollPc' = "getBuild"
    /\ UNCHANGED <<workflow, retrier, pure, lookups, now, timeoutMs, pollIntervalMs, buildInfo,
                   fetched, rejected, sleeps, pollOutcome, pollError, cancelRequested>>

\* Variant: the first build fetched is returned, building or not.
Poll_GetBuildSettles_ReturnsFirstFetch ==
    /\ pollPc = "getBuild"
    /\ \E d \in 0..MaxLatency, b \in Builds :
        /\ now' = now + d
        /\ buildInfo' = b
        /\ fetched' = Append(fetched, b)
        /\ pollPc' = "done"
        /\ pollOutcome' = "returned"
        /\ pollError' = NoError
    /\ UNCHANGED <<workflow, retrier, pure, lookups, startTime, timeoutMs, pollIntervalMs, rejected,
                   sleeps, cancelRequested>>

\* The fetch settles with a build: return it when it is not building, throw
\* when the timeout has passed, else start the interval timer.
Poll_GetBuildSettles ==
    /\ pollPc = "getBuild"
    /\ \E d \in 0..MaxLatency, b \in Builds :
        /\ now' = now + d
        /\ buildInfo' = b
        /\ fetched' = Append(fetched, b)
        /\ IF ~b.building
           THEN /\ pollPc' = "done"
                /\ pollOutcome' = "returned"
                /\ pollError' = NoError
           ELSE IF TimedOut(now + d)
           THEN /\ pollPc' = "done"
                /\ pollOutcome' = "thrown"
                /\ pollError' = TimeoutError
           ELSE /\ pollPc' = "sleep"
                /\ UNCHANGED <<pollOutcome, pollError>>
    /\ UNCHANGED <<workflow, retrier, pure, lookups, startTime, timeoutMs, pollIntervalMs, rejected,
                   sleeps, cancelRequested>>

\* Variant: a failed fetch is tried once more before the error is rethrown.
Poll_GetBuildRejects_RetriesOnce ==
    /\ pollPc = "getBuild"
    /\ \E d \in 0..MaxLatency : now' = now + d
    /\ rejected' = rejected + 1
    /\ IF rejected = 0
       THEN UNCHANGED <<pollPc, pollOutcome, pollError>>
       ELSE /\ pollPc' = "done"
            /\ pollOutcome' = "thrown"
            /\ pollError' = Rejection("getBuild")
    /\ UNCHANGED <<workflow, retrier, pure, lookups, startTime, timeoutMs, pollIntervalMs, buildInfo,
                   fetched, sleeps, cancelRequested>>

\* The fetch rejects: the catch block logs the error and rethrows it.
Poll_GetBuildRejects ==
    /\ pollPc = "getBuild"
    /\ \E d \in 0..MaxLatency : now' = now + d
    /\ pollPc' = "done"
    /\ pollOutcome' = "thrown"
    /\ pollError' = Rejection("getBuild")
    /\ rejected' = rejected + 1
    /\ UNCHANGED <<workflow, retrier, pure, lookups, startTime, timeoutMs, pollIntervalMs, buildInfo,
                   fetched, sleeps, cancelRequested>>

\* Variant: the timer is raced against the cancellation signal.
Poll_SleepSettles_HonoursCancel ==
    /\ pollPc = "sleep"
    /\ Len(fetched) < MaxFetches
    /\ IF cancelRequested
       THEN /\ pollPc' = "done"
            /\ pollOutcome' = "thrown"
            /\ pollError' = Error(<<"cancelled">>)
            /\ UNCHANGED <<now, sleeps>>
       ELSE /\ \E d \in 0..MaxLatency : now' = now + pollIntervalMs + d
            /\ sleeps' = sleeps + 1
            /\ pollPc' = "getBuild"
            /\ UNCHANGED <<pollOutcome, pollError>>
    /\ UNCHANGED <<workflow, retrier, pure, lookups, startTime, timeoutMs, pollIntervalMs, buildInfo,
                   fetched, rejected, cancelRequested>>

\* The interval timer fires, no earlier than pollIntervalMs after it was set,
\* and the loop fetches again.
Poll_SleepSettles ==
    /\ pollPc = "sleep"
    /\ Len(fetched) < MaxFetches
    /\ \E d \in 0..MaxLatency : now' = now + pollIntervalMs + d
    /\ sleeps' = sleeps + 1
    /\ pollPc' = "getBuild"
    /\ UNCHANGED <<workflow, retrier, pure, lookups, startTime, timeoutMs, pollIntervalMs, buildInfo,
                   fetched, rejected, pollOutcome, pollError, cancelRequested>>

\* The host raises a cancellation signal while the wait is under way.  The
\* function has no parameter, field or listener through which it could learn
\* of it.
Poll_CancelRequested ==
    /\ pollPc \in {"getBuild", "sleep"}
    /\ ~cancelRequested
    /\ cancelRequested' = TRUE
    /\ UNCHANGED <<workflow, retrier, pure, lookups, pollPc, now, startTime, timeoutMs,
                   pollIntervalMs, buildInfo, fetched, rejected, sleeps, pollOutcome,
                   pollError>>

waitForBuildCompletion ==
    \/ Poll_Begin
    \/ Poll_GetBuildSettles
    \/ Poll_GetBuildRejects
    \/ Poll_SleepSettles

PollNext ==
    \/ waitForBuildCompletion
    \/ Poll_CancelRequested

PollSpec == PollInit /\ [][PollNext]_vars

\* Every fetch settles and every timer fires.
FairPollSpec == PollSpec /\ WF_vars(waitForBuildCompletion)

\* Variant: status starts undefined instead of UNKNOWN.
convertBuildToPipeline_NoInitialStatus(build) ==
    [status |->
        IF build.building THEN "RUNNING"
        ELSE IF build.result # NoResult
        THEN CASE build.result = "SUCCESS" -> "SUCCESS"
               [] build.result = "FAILURE" -> "FAILURE"
               [] build.result = "UNSTABLE" -> "FAILURE"
               [] build.result = "ABORTED" -> "FAILURE"
               [] build.result = "NOT_BUILT" -> "PENDING"
               [] OTHER -> "UNKNOWN"
        ELSE NoString]

\* JenkinsClient.convertBuildToPipeline: the canonical status given to a build
\* (the other fields of the Pipeline are copied from the build and the arguments).
convertBuildToPipeline(build) ==
    [status |->
        IF build.building THEN "RUNNING"
        ELSE IF build.result # NoResult
        THEN CASE build.result = "SUCCESS" -> "SUCCESS"
               [] build.result = "FAILURE" -> "FAILURE"
               [] build.result = "UNSTABLE" -> "FAILURE"
               [] build.result = "ABORTED" -> "FAILURE"
               [] build.result = "NOT_BUILT" -> "PENDING"
               [] OTHER -> "UNKNOWN"
        ELSE "UNKNOWN"]

(***************************************************************************)
(* Properties of waitForBuildCompletion                                    *)
(***************************************************************************)
Elapsed == now - startTime

AllBuilding(bs) == \A i \in 1..Len(bs) : bs[i].building

\* C11: the wait returns on the first fetch that sees the build not building:
\* the returned build is that observation, every earlier one was building,
\* one interval sleep separates consecutive fetches (so the wait lasted at
\* least sleeps x interval), and nothing runs after the return.  For the
\* observations [building, building, not building] that is exactly 3
\* fetches and 2 sleeps.
C11_ReturnsOnFirstTerminal ==
    /\ pollOutcome = "returned" =>
        /\ fetched # << >>
        /\ buildInfo = fetched[Len(fetched)]
        /\ ~buildInfo.building
        /\ AllBuilding(SubSeq(fetched, 1, Len(fetched) - 1))
        /\ sleeps = Len(fetched) - 1
        /\ Elapsed >= sleeps * pollIntervalMs
        /\ ~ENABLED waitForBuildCompletion
    /\ (/\ pollPc = "done"
        /\ Len(fetched) = 3
        /\ fetched[1].building /\ fetched[2].building /\ ~fetched[3].building)
        => /\ pollOutcome = "returned"
           /\ buildInfo = fetched[3]
           /\ sleeps = 2

C11_Witness ==
    /\ pollOutcome = "returned"
    /\ Len(fetched) = 3
    /\ buildInfo = JenkinsBuild(FALSE, "SUCCESS")
    /\ sleeps = 2

\* C12 (as claimed): a wait that only ever saw the build building ends, at or
\* after the timeout, with a timeout outcome that is a returned value and not
\* an exception.
C12_TimeoutIsReturnedValue ==
    (/\ pollPc = "done"
     /\ fetched # << >>
     /\ AllBuilding(fetched)
     /\ pollError # Rejection("getBuild"))
        => /\ pollOutcome = "returned"
           /\ Elapsed >= timeoutMs

\* C12 (amended): a wait that only ever saw the build building ends by throwing
\* the timeout Error, strictly after timeoutMs has elapsed since the start and
\* never before; the timeout is never a returned value, and the loop goes to
\* sleep only while the timeout has not passed.
C12_TimeoutIsThrown ==
    /\ (/\ pollPc = "done"
        /\ fetched # << >>
        /\ AllBuilding(fetched)
        /\ pollError # Rejection("getBuild"))
        => /\ pollOutcome = "thrown"
           /\ pollError = TimeoutError
    /\ pollError = TimeoutError =>
        /\ pollOutcome = "thrown"
        /\ Elapsed > timeoutMs
        /\ AllBuilding(fetched)
    /\ pollPc = "sleep" => Elapsed <= timeoutMs

C12_Witness ==
    /\ pollOutcome = "thrown"
    /\ pollError = TimeoutError
    /\ Len(fetched) = 3
    /\ timeoutMs = 2

\* C13: a build the wait returns normally has a terminal canonical status
\* (SUCCESS, FAILURE or CANCELLED), never RUNNING, PENDING or UNKNOWN.
C13_ReturnedBuildIsTerminal ==
    pollOutcome = "returned" => convertBuildToPipeline(buildInfo).status \in Terminal

\* C14: the wait never blocks for ever: when every fetch settles and every
\* timer fires (each sleep advancing the clock by at least one tick), the wait
\* eventually ends, by returning a build or by throwing.
C14_WaitEnds == <>(pollPc = "done" /\ pollOutcome \in {"returned", "thrown"})

C14_Witness ==
    /\ pollPc = "done"
    /\ pollOutcome = "thrown"
    /\ pollError = TimeoutError
    /\ sleeps = MaxTimeout

\* C15 (as claimed): one failed fetch does not end the wait; the fetch is
\* retried, and the wait ends with a fetch error only after more than one
\* fetch has failed.
C15_FetchFailureRetried ==
    pollError = Rejection("getBuild") => rejected > 1

\* C15 (amended): the first failed fetch ends the wait: nothing is retried, the
\* wait throws the error of that fetch, which is not the timeout Error, and a
\* wait that is still under way has seen no failed fetch.
C15_FetchFailureEndsWait ==
    /\ rejected > 0 =>
        /\ rejected = 1
        /\ pollPc = "done"
        /\ pollOutcome = "thrown"
        /\ pollError = Rejection("getBuild")
        /\ pollError # TimeoutError
    /\ pollError = Rejection("getBuild") => rejected = 1
    /\ pollPc # "done" => rejected = 0

C15_Witness ==
    /\ pollOutcome = "thrown"
    /\ pollError = Rejection("getBuild")
    /\ Len(fetched) = 2
    /\ Elapsed <= timeoutMs

\* A wait suspended on its interval timer after the host raised the signal.
SignalledWhileSuspended == pollPc = "sleep" /\ cancelRequested

EndsPromptly ==
    SignalledWhileSuspended =>
        /\ pollPc' = "done"
        /\ pollOutcome' # "running"
        /\ sleeps' = sleeps

\* C18 (as claimed): a wait signalled while suspended between two fetches ends
\* with a timeout or cancelled outcome without sleeping out the interval.
C18_CancelEndsWaitPromptly == [][EndsPromptly]_vars

SleepsOutInterval ==
    /\ SignalledWhileSuspended =>
        /\ pollPc' = "getBuild"
        /\ pollOutcome' = "running"
        /\ sleeps' = sleeps + 1
        /\ now' >= now + pollIntervalMs
    /\ cancelRequested' # cancelRequested =>
        UNCHANGED <<pollPc, now, startTime, timeoutMs, pollIntervalMs, buildInfo, fetched,
                    rejected, sleeps, pollOutcome, pollError>>

\* C18 (amended): the wait takes no cancellation or deadline signal.  A signal
\* raised while it is suspended between two fetches changes nothing of the
\* wait: it sleeps out the whole poll interval and fetches again, still
\* running; only a build that is not building, its own timeoutMs or a failed
\* fetch end it.
C18_CancelIsNotObserved == [][SleepsOutInterval]_vars

C18_Witness ==
    /\ cancelRequested
    /\ pollPc = "getBuild"
    /\ sleeps = 2
    /\ pollOutcome = "running"

(***************************************************************************)
(* AzureCI.mapAzureStatusToPipelineStatus                                  *)
(***************************************************************************)
AzurePipelineRunStatus ==
    {"cancelling", "completed", "inProgress", "notStarted", "postponed", "unknown"}

AzurePipelineRunResult ==
    {"canceled", "failed", "succeeded", "skipped", "partiallySucceeded", "unknown"}

\* A state or result string outside the enums, as the server may send one.
OtherString == "other"

AzurePipelineRun(state, res) == [state |-> state, result |-> res]

mapAzureStatusToPipelineStatus(azureRun) ==
    IF azureRun \in {Null, Undefined} THEN "UNKNOWN"
    ELSE CASE azureRun.state \in {"inProgress", "notStarted", "postponed"} -> "RUNNING"
           [] azureRun.state = "cancelling" -> "RUNNING"
           [] azureRun.state = "completed" ->
                CASE azureRun.result = "succeeded" -> "SUCCESS"
                  [] azureRun.result = "partiallySucceeded" -> "SUCCESS"
                  [] azureRun.result = "failed" -> "FAILURE"
                  [] azureRun.result = "canceled" -> "CANCELLED"
                  [] OTHER -> "UNKNOWN"
           [] OTHER -> "UNKNOWN"

(***************************************************************************)
(* AzureCI.waitForAllPipelineRunsToFinish                                  *)
(*                                                                         *)
(* The function body is one call of async-retry: the callback is run, and  *)
(* run again after a backoff each time it throws, until it returns or the  *)
(* retries are used up.                                                    *)
(***************************************************************************)
\* retries: 30
Retries == 30

\* Longest listing of runs explored.
MaxRuns == 2

\* What getPipelineIdByName can resolve to: null or a pipeline id.
PipelineIds == {Null, [id |-> 0], [id |-> 1]}

\* if (!pipelineId)
NoPipelineId(id) == IF id = Null THEN TRUE ELSE id.id = 0

\* The runs a listing can hold: one in progress, one not started, two completed.
ListedRuns ==
    {AzurePipelineRun("inProgress", NoString), AzurePipelineRun("notStarted", NoString),
     AzurePipelineRun("completed", "succeeded"), AzurePipelineRun("completed", "failed")}

Listings == UNION {[1..n -> ListedRuns] : n \in 0..MaxRuns}

\* pipelineRuns.filter(...): the runs of a listing that are PENDING or RUNNING.
InFlight(runs) ==
    SelectSeq(runs, LAMBDA r : \/ mapAzureStatusToPipelineStatus(r) = "PENDING"
                               \/ mapAzureStatusToPipelineStatus(r) = "RUNNING")

\* One more error e in the list: the step of mainError()'s loop for e.
Recorded(f, e) ==
    LET c == f.count[e.message[1]] + 1
    IN  [count |-> [f.count EXCEPT ![e.message[1]] = c],
         total |-> f.total + 1,
         main |-> IF c >= f.mainCount THEN e ELSE f.main,
         mainCount |-> IF c >= f.mainCount THEN c ELSE f.mainCount,
         last |-> e]

mainError(f) == f.main

\* Variant: one retry more than configured.
RetryAllowed_OneMore(n) == n - 1 < Retries + 1

\* op.retry(err): another attempt is made while fewer than `retries` retries
\* have been made; n is the number of attempts started.
RetryAllowed(n) == n - 1 < Retries

RetryInit ==
    /\ WorkflowIdle
    /\ PollerIdle
    /\ PureIdle
    /\ LookupsIdle
    /\ retryPc = "begin"
    /\ attempts = 0
    /\ pipelineId = Undefined
    /\ pipelineRuns = << >>
    /\ failures = NoFailures
    /\ retryOutcome = "running"
    /\ retryError = NoError

\* A new attempt: the callback is called and awaits getPipelineIdByName.
Retry_Attempt ==
    /\ retryPc \in {"begin", "backoff"}
    /\ attempts' = attempts + 1
    /\ retryPc' = "getPipelineIdByName"
    /\ pipelineId' = Undefined
    /\ pipelineRuns' = << >>
    /\ UNCHANGED <<workflow, poller, pure, lookups, failures, retryOutcome, retryError>>

\* The callback threw e: retry after a backoff, or reject with mainError().
Retry_OnError(e) ==
    /\ failures' = Recorded(failures, e)
    /\ IF RetryAllowed(attempts)
       THEN /\ retryPc' = "backoff"
            /\ UNCHANGED <<retryOutcome, retryError>>
       ELSE /\ retryPc' = "done"
            /\ retryOutcome' = "thrown"
            /\ retryError' = mainError(Recorded(failures, e))
    /\ UNCHANGED <<workflow, poller, pure, lookups, attempts, pipelineId, pipelineRuns>>

\* getPipelineIdByName resolves: without an id the callback returns, else it
\* awaits listPipelineRuns.
Retry_GetPipelineIdSettles ==
    /\ retryPc = "getPipelineIdByName"
    /\ \E id \in PipelineIds :
        /\ pipelineId' = id
        /\ IF NoPipelineId(id)
           THEN /\ retryPc' = "done"
                /\ retryOutcome' = "returned"
           ELSE /\ retryPc' = "listPipelineRuns"
                /\ UNCHANGED retryOutcome
    /\ UNCHANGED <<workflow, poller, pure, lookups, attempts, pipelineRuns, failures, retryError>>

Retry_GetPipelineIdRejects ==
    /\ retryPc = "getPipelineIdByName"
    /\ \E m \in Messages : Retry_OnError(Error(<<m>>))

\* listPipelineRuns resolves: the callback returns when no run is in flight,
\* and runs off its end, returning as well, when some run is.
Retry_ListPipelineRunsSettles ==
    /\ retryPc = "listPipelineRuns"
    /\ \E runs \in Listings :
        /\ pipelineRuns' = runs
        /\ IF Len(InFlight(runs)) = 0
           THEN /\ retryPc' = "done"
                /\ retryOutcome' = "returned"
           ELSE /\ retryPc' = "done"
                /\ retryOutcome' = "returned"
    /\ UNCHANGED <<workflow, poller, pure, lookups, attempts, pipelineId, failures, retryError>>

Retry_ListPipelineRunsRejects ==
    /\ retryPc = "listPipelineRuns"
    /\ \E m \in Messages : Retry_OnError(Error(<<m>>))

waitForAllPipelineRunsToFinish ==
    \/ Retry_Attempt
    \/ Retry_GetPipelineIdSettles
    \/ Retry_GetPipelineIdRejects
    \/ Retry_ListPipelineRunsSettles
    \/ Retry_ListPipelineRunsRejects

RetrySpec == RetryInit /\ [][waitForAllPipelineRunsToFinish]_vars

(***************************************************************************)
(* Properties of waitForAllPipelineRunsToFinish                            *)
(***************************************************************************)
\* C16: when the function returns normally and the pipeline id was resolved,
\* the last listing held no run whose canonical status is PENDING or RUNNING
\* (a listing with such a run makes the function poll again instead).
C16_ReturnsOnlyWhenNoneInFlight ==
    (retryOutcome = "returned" /\ ~NoPipelineId(pipelineId))
        => Len(InFlight(pipelineRuns)) = 0

AttemptsBounded ==
    /\ attempts <= Retries + 1
    /\ retryPc = "done" \/ ENABLED waitForAllPipelineRunsToFinish

\* Every attempt after the first was preceded by a failed one, and an attempt
\* that resolves uses up no retry.
OnlyFailuresConsumeRetries ==
    /\ retryPc = "begin" => attempts = 0 /\ failures.total = 0
    /\ retryPc \in {"getPipelineIdByName", "listPipelineRuns"} => attempts = failures.total + 1
    /\ retryPc = "backoff" => attempts = failures.total
    /\ retryOutcome = "returned" => attempts = failures.total + 1
    /\ retryOutcome = "thrown" => attempts = Retries + 1 /\ failures.total = attempts

UpperCase ==
    <<"A", "B", "C", "D", "E", "F", "G", "H", "I", "J", "K", "L", "M",
      "N", "O", "P", "Q", "R", "S", "T", "U", "V", "W", "X", "Y", "Z">>

LowerCase ==
    <<"a", "b", "c", "d", "e", "f", "g", "h", "i", "j", "k", "l", "m",
      "n", "o", "p", "q", "r", "s", "t", "u", "v", "w", "x", "y", "z">>

\* String.prototype.toLowerCase
toLowerCase(s) ==
    [i \in 1..Len(s) |->
        IF \E k \in 1..Len(UpperCase) : UpperCase[k] = s[i]
        THEN LowerCase[CHOOSE k \in 1..Len(UpperCase) : UpperCase[k] = s[i]]
        ELSE s[i]]

\* String.prototype.includes
includes(s, pat) ==
    \E i \in 1..(Len(s) + 1) :
        /\ i + Len(pat) <= Len(s) + 1
        /\ SubSeq(s, i, i + Len(pat) - 1) = pat

\* o.f is present (and, being a non-empty string or an object, truthy).
Has(o, f) == f \in DOMAIN o

(***************************************************************************)
(* Build metadata as the Jenkins API reports it.                           *)
(***************************************************************************)
\* Longest list of actions, and of causes, of a build explored.
MaxList == 2

\* An action that carries no trigger information.
PlainAction ==
    [_class |->   \* 'hudson.model.CauseAction'
        <<"h", "u", "d", "s", "o", "n", ".", "m", "o", "d", "e", "l", ".", "C", "a", "u",
          "s", "e", "A", "c", "t", "i", "o", "n">>]

\* The build data of the git plugin.
GitAction ==
    [_class |->   \* 'hudson.plugins.git.util.BuildData'
        <<"h", "u", "d", "s", "o", "n", ".", "p", "l", "u", "g", "i", "n", "s", ".", "g",
          "i", "t", ".", "u", "t", "i", "l", ".", "B", "u", "i", "l", "d", "D", "a", "t",
          "a">>,
     lastBuiltRevision |-> [SHA1 |-> "deadbeef"],
     buildsByBranchName |-> [main |-> "deadbeef"]]

\* The parameters of a build started by the pull request builder.
PRParametersAction ==
    [_class |->   \* 'hudson.model.ParametersAction'
        <<"h", "u", "d", "s", "o", "n", ".", "m", "o", "d", "e", "l", ".", "P", "a", "r",
          "a", "m", "e", "t", "e", "r", "s", "A", "c", "t", "i", "o", "n">>,
     parameters |-> <<[name |-> <<"g", "h", "p", "r", "b", "P", "u", "l", "l", "I", "d">>]>>]

\* An action without _class, with a parameter without name and one named BRANCH.
BranchParametersAction ==
    [parameters |-> <<[value |-> "main"], [name |-> <<"B", "R", "A", "N", "C", "H">>]>>]

Actions == {PlainAction, GitAction, PRParametersAction, BranchParametersAction}

UserCause ==
    [shortDescription |->   \* 'Started by user admin'
        <<"S", "t", "a", "r", "t", "e", "d", " ", "b", "y", " ", "u", "s", "e", "r", " ",
          "a", "d", "m", "i", "n">>,
     _class |->   \* 'hudson.model.Cause$UserIdCause'
        <<"h", "u", "d", "s", "o", "n", ".", "m", "o", "d", "e", "l", ".", "C", "a", "u",
          "s", "e", "$", "U", "s", "e", "r", "I", "d", "C", "a", "u", "s", "e">>]

PushCause ==
    [shortDescription |->   \* 'Started by GitHub push by dev'
        <<"S", "t", "a", "r", "t", "e", "d", " ", "b", "y", " ", "G", "i", "t", "H", "u",
          "b", " ", "p", "u", "s", "h", " ", "b", "y", " ", "d", "e", "v">>,
     _class |->   \* 'com.cloudbees.jenkins.GitHubPushCause'
        <<"c", "o", "m", ".", "c", "l", "o", "u", "d", "b", "e", "e", "s", ".", "j", "e",
          "n", "k", "i", "n", "s", ".", "G", "i", "t", "H", "u", "b", "P", "u", "s", "h",
          "C", "a", "u", "s", "e">>]

PRCause ==
    [shortDescription |->   \* 'Pull Request #7 opened'
        <<"P", "u", "l", "l", " ", "R", "e", "q", "u", "e", "s", "t", " ", "#", "7", " ",
          "o", "p", "e", "n", "e", "d">>]

TimerCause ==
    [shortDescription |->   \* 'Started by timer'
        <<"S", "t", "a", "r", "t", "e", "d", " ", "b", "y", " ", "t", "i", "m", "e", "r">>,
     _class |->   \* 'hudson.triggers.TimerTrigger$TimerTriggerCause'
        <<"h", "u", "d", "s", "o", "n", ".", "t", "r", "i", "g", "g", "e", "r", "s", ".",
          "T", "i", "m", "e", "r", "T", "r", "i", "g", "g", "e", "r", "$", "T", "i", "m",
          "e", "r", "T", "r", "i", "g", "g", "e", "r", "C", "a", "u", "s", "e">>]

RemoteCause ==
    [shortDescription |->   \* 'Started by remote host 10.0.0.1'
        <<"S", "t", "a", "r", "t", "e", "d", " ", "b", "y", " ", "r", "e", "m", "o", "t",
          "e", " ", "h", "o", "s", "t", " ", "1", "0", ".", "0", ".", "0", ".", "1">>,
     _class |->   \* 'hudson.model.Cause$RemoteCause'
        <<"h", "u", "d", "s", "o", "n", ".", "m", "o", "d", "e", "l", ".", "C", "a", "u",
          "s", "e", "$", "R", "e", "m", "o", "t", "e", "C", "a", "u", "s", "e">>]

\* A cause that matches no rule.
UpstreamCause ==
    [shortDescription |->   \* 'Started by upstream project app'
        <<"S", "t", "a", "r", "t", "e", "d", " ", "b", "y", " ", "u", "p", "s", "t", "r",
          "e", "a", "m", " ", "p", "r", "o", "j", "e", "c", "t", " ", "a", "p", "p">>,
     _class |->   \* 'hudson.model.Cause$UpstreamCause'
        <<"h", "u", "d", "s", "o", "n", ".", "m", "o", "d", "e", "l", ".", "C", "a", "u",
          "s", "e", "$", "U", "p", "s", "t", "r", "e", "a", "m", "C", "a", "u", "s", "e">>]

\* A cause without description: an empty shortDescription is falsy.
UndescribedPushCause ==
    [shortDescription |-> << >>,
     _class |->   \* 'com.cloudbees.jenkins.GitHubPushCause'
        <<"c", "o", "m", ".", "c", "l", "o", "u", "d", "b", "e", "e", "s", ".", "j", "e",
          "n", "k", "i", "n", "s", ".", "G", "i", "t", "H", "u", "b", "P", "u", "s", "h",
          "C", "a", "u", "s", "e">>]

Causes ==
    {UserCause, PushCause, PRCause, TimerCause, RemoteCause, UpstreamCause,
     UndescribedPushCause}

ListsOf(S) == UNION {[1..n -> S] : n \in 0..MaxList}

\* Builds with and without the actions and causes fields.
TriggerBuilds ==
    {[number |-> 1]}
        \cup {[number |-> 1, actions |-> as] : as \in ListsOf(Actions)}
        \cup {[number |-> 1, causes |-> cs] : cs \in ListsOf(Causes)}
        \cup {[number |-> 1, actions |-> as, causes |-> cs] :
                as \in ListsOf(Actions), cs \in ListsOf(Causes)}

JenkinsBuildTrigger == {"UNKNOWN", "PULL_REQUEST", "PUSH", "MANUAL", "SCHEDULED", "API"}

(***************************************************************************)
(* JenkinsClient.determineBuildTrigger                                     *)
(***************************************************************************)
\* o._class?.includes(pat)
ClassIncludes(o, pat) == Has(o, "_class") /\ includes(o._class, pat)

\* o._class?.toLowerCase().includes(pat)
LowerClassIncludes(o, pat) == Has(o, "_class") /\ includes(toLowerCase(o._class), pat)

\* p.name?.includes('ghpr') || p.name?.includes('pull') || p.name?.includes('PR')
PRParameter(p) ==
    /\ Has(p, "name")
    /\ \/ includes(p.name, <<"g", "h", "p", "r">>)
       \/ includes(p.name, <<"p", "u", "l", "l">>)
       \/ includes(p.name, <<"P", "R">>)

\* The test of the first loop: the action tells of a pull request.
PRAction(action) ==
    \/ ClassIncludes(action,   \* 'pull-request'
            <<"p", "u", "l", "l", "-", "r", "e", "q", "u", "e", "s", "t">>)
    \/ ClassIncludes(action,   \* 'PullRequestAction'
            <<"P", "u", "l", "l", "R", "e", "q", "u", "e", "s", "t", "A", "c", "t", "i", "o", "n">>)
    \/ Has(action, "pullRequest")
    \/ /\ Has(action, "parameters")
       /\ \E i \in 1..Len(action.parameters) : PRParameter(action.parameters[i])

\* cause.shortDescription && ...
Described(cause) == Has(cause, "shortDescription") /\ cause.shortDescription # << >>

\* The rules applied to one cause, in the order of the loop body; "none" when
\* the loop goes on to the next cause.
CauseTrigger(cause) ==
    IF /\ Described(cause)
       /\ \/ includes(toLowerCase(cause.shortDescription),   \* 'pull request'
                <<"p", "u", "l", "l", " ", "r", "e", "q", "u", "e", "s", "t">>)
          \/ includes(toLowerCase(cause.shortDescription),   \* 'pr '
                <<"p", "r", " ">>)
          \/ LowerClassIncludes(cause,   \* 'pullrequest'
                <<"p", "u", "l", "l", "r", "e", "q", "u", "e", "s", "t">>)
    THEN "PULL_REQUEST"
    ELSE IF /\ Described(cause)
            /\ \/ includes(cause.shortDescription,   \* 'push'
                     <<"p", "u", "s", "h">>)
               \/ ClassIncludes(cause,   \* 'GitHubPushCause'
                     <<"G", "i", "t", "H", "u", "b", "P", "u", "s", "h", "C", "a", "u", "s", "e">>)
               \/ ClassIncludes(cause,   \* 'GitLabWebHookCause'
                     <<"G", "i", "t", "L", "a", "b", "W", "e", "b", "H", "o", "o", "k", "C", "a", "u", "s", "e">>)
    THEN "PUSH"
    ELSE IF /\ Described(cause)
            /\ \/ includes(cause.shortDescription,   \* 'Started by user'
                     <<"S", "t", "a", "r", "t", "e", "d", " ", "b", "y", " ", "u", "s", "e", "r">>)
               \/ ClassIncludes(cause,   \* 'UserIdCause'
                     <<"U", "s", "e", "r", "I", "d", "C", "a", "u", "s", "e">>)
    THEN "MANUAL"
    ELSE IF /\ Described(cause)
            /\ \/ includes(cause.shortDescription,   \* 'timer'
                     <<"t", "i", "m", "e", "r">>)
               \/ ClassIncludes(cause,   \* 'TimerTrigger'
                     <<"T", "i", "m", "e", "r", "T", "r", "i", "g", "g", "e", "r">>)
    THEN "SCHEDULED"
    ELSE IF /\ Described(cause)
            /\ \/ includes(cause.shortDescription,   \* 'remote'
                     <<"r", "e", "m", "o", "t", "e">>)
               \/ ClassIncludes(cause,   \* 'RemoteCause'
                     <<"R", "e", "m", "o", "t", "e", "C", "a", "u", "s", "e">>)
    THEN "API"
    ELSE "none"

\* The loop over build.causes: the first cause that matches a rule decides.
RECURSIVE CausesTrigger(_)
CausesTrigger(causes) ==
    IF causes = << >> THEN "none"
    ELSE IF CauseTrigger(Head(causes)) # "none" THEN CauseTrigger(Head(causes))
    ELSE CausesTrigger(Tail(causes))

\* The test of the last rule: the action holds git information.
GitInformation(action) ==
    \/ ClassIncludes(action, <<"g", "i", "t">>)   \* 'git'
    \/ Has(action, "lastBuiltRevision")
    \/ Has(action, "buildsByBranchName")

determineBuildTrigger(build) ==
    IF /\ Has(build, "actions")
       /\ \E i \in 1..Len(build.actions) : PRAction(build.actions[i])
    THEN "PULL_REQUEST"
    ELSE IF Has(build, "causes") /\ CausesTrigger(build.causes) # "none"
    THEN CausesTrigger(build.causes)
    ELSE IF /\ Has(build, "actions")
            /\ \E i \in 1..Len(build.actions) : GitInformation(build.actions[i])
    THEN "PUSH"
    ELSE "UNKNOWN"

(***************************************************************************)
(* AzureClient.determineTriggerEvent                                       *)
(***************************************************************************)
AzurePipelineTriggerReason ==
    {"manual", "individualCI", "batchedCI", "schedule", "pullRequest", "userCreated",
     "validateShelveset", "checkInShelveset", "resourceTrigger", "buildCompletion",
     "unknown"}

\* The keys of triggerInfo the rules read.
TriggerInfoKeys == {"pr.pullRequestId", "ci.sourceSha", "Build.Reason"}

\* A triggerInfo object; NoString stands for a key that is absent.
TriggerInfo(pullRequestId, sourceSha, buildReason) ==
    [k \in TriggerInfoKeys |->
        CASE k = "pr.pullRequestId" -> pullRequestId
          [] k = "ci.sourceSha" -> sourceSha
          [] k = "Build.Reason" -> buildReason]

TriggerInfos ==
    {TriggerInfo(p, c, b) :
        p \in {NoString, "7"},
        c \in {NoString, "deadbeef"},
        b \in {NoString, "PullRequest", "IndividualCI", "BatchedCI", "Manual"}}

\* Runs with and without reason (NoString when absent) and triggerInfo
\* (Undefined when absent); the reason may lie outside the enum.
TriggerRuns ==
    {[reason |-> r, triggerInfo |-> t] :
        r \in AzurePipelineTriggerReason \cup {NoString, OtherString},
        t \in TriggerInfos \cup {Undefined}}

\* Variant: any reason the run carries is returned, recognised or not.
determineTriggerEvent_TrustsAnyReason(run) ==
    IF run.reason # NoString
    THEN run.reason
    ELSE IF /\ run.triggerInfo # Undefined
            /\ \/ run.triggerInfo["pr.pullRequestId"] # NoString
               \/ run.triggerInfo["Build.Reason"] = "PullRequest"
    THEN "pullRequest"
    ELSE IF /\ run.triggerInfo # Undefined
            /\ \/ run.triggerInfo["ci.sourceSha"] # NoString
               \/ run.triggerInfo["Build.Reason"] = "IndividualCI"
               \/ run.triggerInfo["Build.Reason"] = "BatchedCI"
    THEN "individualCI"
    ELSE "unknown"

\* Variant: triggerInfo is consulted before the reason.
determineTriggerEvent_HintsFirst(run) ==
    IF /\ run.triggerInfo # Undefined
       /\ \/ run.triggerInfo["pr.pullRequestId"] # NoString
          \/ run.triggerInfo["Build.Reason"] = "PullRequest"
    THEN "pullRequest"
    ELSE IF /\ run.triggerInfo # Undefined
            /\ \/ run.triggerInfo["ci.sourceSha"] # NoString
               \/ run.triggerInfo["Build.Reason"] = "IndividualCI"
               \/ run.triggerInfo["Build.Reason"] = "BatchedCI"
    THEN "individualCI"
    ELSE IF run.reason # NoString /\ run.reason \in AzurePipelineTriggerReason
    THEN run.reason
    ELSE "unknown"

determineTriggerEvent(run) ==
    IF run.reason # NoString /\ run.reason \in AzurePipelineTriggerReason
    THEN run.reason
    ELSE IF /\ run.triggerInfo # Undefined
            /\ \/ run.triggerInfo["pr.pullRequestId"] # NoString
               \/ run.triggerInfo["Build.Reason"] = "PullRequest"
    THEN "pullRequest"
    ELSE IF /\ run.triggerInfo # Undefined
            /\ \/ run.triggerInfo["ci.sourceSha"] # NoString
               \/ run.triggerInfo["Build.Reason"] = "IndividualCI"
               \/ run.triggerInfo["Build.Reason"] = "BatchedCI"
    THEN "individualCI"
    ELSE IF run.reason = "manual" \/ run.reason = "userCreated"
    THEN "manual"
    ELSE IF run.reason = "schedule"
    THEN "schedule"
    ELSE "unknown"

(***************************************************************************)
(* The pure functions of the clients, applied to one argument.             *)
(***************************************************************************)
\* The (state, result) pairs of a run, in and out of the enums, the result
\* also absent (NoString) or null (NoResult), and no run at all.
StatusRuns ==
    {AzurePipelineRun(s, r) :
        s \in AzurePipelineRunStatus \cup {OtherString},
        r \in AzurePipelineRunResult \cup {OtherString, NoString, NoResult}}
        \cup {Null, Undefined}

\* The (building, result) pairs of a build.
StatusBuilds ==
    {JenkinsBuild(b, r) :
        b \in BOOLEAN, r \in JenkinsBuildResult \cup {NoResult, OtherResult}}

Functions ==
    {"mapAzureStatusToPipelineStatus", "convertBuildToPipeline", "determineTriggerEvent",
     "determineBuildTrigger"}

ArgumentsOf(f) ==
    CASE f = "mapAzureStatusToPipelineStatus" -> StatusRuns
      [] f = "convertBuildToPipeline" -> StatusBuilds
      [] f = "determineTriggerEvent" -> TriggerRuns
      [] f = "determineBuildTrigger" -> TriggerBuilds

PureInit ==
    /\ WorkflowIdle
    /\ PollerIdle
    /\ RetrierIdle
    /\ LookupsIdle
    /\ callee \in Functions
    /\ argument \in ArgumentsOf(callee)
    /\ result = NotReturned

\* The call of f returns r.
Returns(f, r) ==
    /\ callee = f
    /\ result = NotReturned
    /\ result' = r
    /\ UNCHANGED <<workflow, poller, retrier, lookups, callee, argument>>

Call_mapAzureStatusToPipelineStatus ==
    Returns("mapAzureStatusToPipelineStatus", mapAzureStatusToPipelineStatus(argument))

Call_convertBuildToPipeline ==
    Returns("convertBuildToPipeline", convertBuildToPipeline(argument).status)

Call_determineTriggerEvent ==
    Returns("determineTriggerEvent", determineTriggerEvent(argument))

Call_determineBuildTrigger ==
    Returns("determineBuildTrigger", determineBuildTrigger(argument))

PureNext ==
    \/ Call_mapAzureStatusToPipelineStatus
    \/ Call_convertBuildToPipeline
    \/ Call_determineTriggerEvent
    \/ Call_determineBuildTrigger

PureSpec == PureInit /\ [][PureNext]_vars

(***************************************************************************)
(* Properties of the pure functions                                        *)
(***************************************************************************)
Returned(f) == callee = f /\ result # NotReturned

\* The canonical status the mapping table gives an Azure run.
AzureStatusTable(run) ==
    IF run \in {Null, Undefined} THEN "UNKNOWN"
    ELSE IF run.state \in {"inProgress", "notStarted", "postponed", "cancelling"} THEN "RUNNING"
    ELSE IF run.state = "completed" /\ run.result \in {"succeeded", "partiallySucceeded"}
    THEN "SUCCESS"
    ELSE IF run.state = "completed" /\ run.result = "failed" THEN "FAILURE"
    ELSE IF run.state = "completed" /\ run.result = "canceled" THEN "CANCELLED"
    ELSE "UNKNOWN"

\* The canonical status the mapping table gives a Jenkins build.
JenkinsStatusTable(build) ==
    IF build.building THEN "RUNNING"
    ELSE IF build.result = "SUCCESS" THEN "SUCCESS"
    ELSE IF build.result \in {"FAILURE", "UNSTABLE", "ABORTED"} THEN "FAILURE"
    ELSE IF build.result = "NOT_BUILT" THEN "PENDING"
    ELSE "UNKNOWN"

\* C19: status normalization is total: for every Azure (state, result) pair,
\* the result absent, null or outside the enum included, and for no run at
\* all, mapAzureStatusToPipelineStatus returns exactly one canonical status,
\* the one of its table, UNKNOWN for every pair without an entry (no pair
\* makes it throw); likewise the status convertBuildToPipeline gives every
\* Jenkins (building, result) pair.
C19_StatusNormalizationTotal ==
    /\ Returned("mapAzureStatusToPipelineStatus") =>
        /\ result \in PipelineStatus
        /\ result = AzureStatusTable(argument)
    /\ Returned("convertBuildToPipeline") =>
        /\ result \in PipelineStatus
        /\ result = JenkinsStatusTable(argument)

C19_Witness ==
    /\ Returned("mapAzureStatusToPipelineStatus")
    /\ argument = AzurePipelineRun("completed", OtherString)
    /\ result = "UNKNOWN"

\* A run whose reason is absent or unrecognised and whose triggerInfo is absent
\* or names neither a pull request nor a CI push.
NoRunSignal(run) ==
    /\ run.reason \notin AzurePipelineTriggerReason
    /\ \/ run.triggerInfo = Undefined
       \/ /\ run.triggerInfo["pr.pullRequestId"] = NoString
          /\ run.triggerInfo["ci.sourceSha"] = NoString
          /\ run.triggerInfo["Build.Reason"] \notin {"PullRequest", "IndividualCI", "BatchedCI"}

\* A build all of whose actions and causes, if it has any, tell nothing about
\* the trigger.
NoBuildSignal(build) ==
    /\ Has(build, "actions") =>
        \A i \in 1..Len(build.actions) :
            build.actions[i] \in {PlainAction, BranchParametersAction}
    /\ Has(build, "causes") =>
        \A i \in 1..Len(build.causes) : build.causes[i] = UpstreamCause

BuildSignals(build) ==
    (IF Has(build, "causes")
     THEN {CauseTrigger(build.causes[i]) : i \in 1..Len(build.causes)} \ {"none"}
     ELSE {})
        \cup (IF Has(build, "actions")
                    /\ \E i \in 1..Len(build.actions) : PRAction(build.actions[i])
              THEN {"PULL_REQUEST"} ELSE {})
        \cup (IF Has(build, "actions")
                    /\ \E i \in 1..Len(build.actions) : GitInformation(build.actions[i])
              THEN {"PUSH"} ELSE {})

\* The signals a run carries, in its reason and in its triggerInfo.
RunSignals(run) ==
    (IF \/ run.reason = "pullRequest"
        \/ /\ run.triggerInfo # Undefined
           /\ \/ run.triggerInfo["pr.pullRequestId"] # NoString
              \/ run.triggerInfo["Build.Reason"] = "PullRequest"
     THEN {"PULL_REQUEST"} ELSE {})
        \cup (IF \/ run.reason \in {"individualCI", "batchedCI"}
                 \/ /\ run.triggerInfo # Undefined
                    /\ \/ run.triggerInfo["ci.sourceSha"] # NoString
                       \/ run.triggerInfo["Build.Reason"] \in {"IndividualCI", "BatchedCI"}
              THEN {"PUSH"} ELSE {})

\* C21: priority law: metadata that carries both a pull-request signal and a
\* push signal, in any field and in any order of causes, is classified as a
\* pull request, by determineBuildTrigger and by determineTriggerEvent.
C21_PullRequestOverPush ==
    /\ (Returned("determineBuildTrigger")
            /\ {"PULL_REQUEST", "PUSH"} \subseteq BuildSignals(argument))
        => result = "PULL_REQUEST"
    /\ (Returned("determineTriggerEvent")
            /\ {"PULL_REQUEST", "PUSH"} \subseteq RunSignals(argument))
        => result = "pullRequest"

\* The fixed order of the rules, highest priority first.
RuleOrder == <<"PULL_REQUEST", "PUSH", "MANUAL", "SCHEDULED", "API">>

\* The highest-priority rule among the signals, UNKNOWN when there is none.
HighestRule(signals) ==
    IF signals = {} THEN "UNKNOWN"
    ELSE RuleOrder[CHOOSE i \in 1..Len(RuleOrder) :
            /\ RuleOrder[i] \in signals
            /\ \A j \in 1..(i - 1) : RuleOrder[j] \notin signals]

\* C22: determineBuildTrigger follows one fixed rule order over the whole
\* metadata (pull request, push, manual, schedule, API): its result is the
\* highest-priority rule that any action or cause satisfies, whatever the order
\* they are listed in, and UNKNOWN when none is satisfied.
C22_FixedRuleOrder ==
    Returned("determineBuildTrigger") => result = HighestRule(BuildSignals(argument))

\* C23: a reason that is a value of the trigger-reason enum is returned as it
\* is, whatever triggerInfo holds; triggerInfo decides only for a run whose
\* reason is absent or unrecognised.
C23_ReasonTrustedFirst ==
    Returned("determineTriggerEvent") =>
        /\ argument.reason \in AzurePipelineTriggerReason => result = argument.reason
        /\ result # argument.reason =>
            /\ argument.reason \notin AzurePipelineTriggerReason
            /\ result \in {"pullRequest", "individualCI", "unknown"}
            /\ result # "unknown" => argument.triggerInfo # Undefined

C23_Witness ==
    /\ Returned("determineTriggerEvent")
    /\ argument.reason = "manual"
    /\ argument.triggerInfo = TriggerInfo("7", NoString, "PullRequest")
    /\ result = "manual"

(***************************************************************************)
(* JenkinsClient.getBuildByCommitSha: the builds of a job, most recent     *)
(* first, are fetched one by one and matched against a commit.             *)
(***************************************************************************)
\* Longest list of builds of a job explored.
MaxBuilds == 2

\* The build numbers of the job.
BuildNumbers == {3, 5, 7}

\* String.prototype.startsWith
startsWith(s, p) == Len(p) <= Len(s) /\ SubSeq(s, 1, Len(p)) = p

\* String.prototype.trim
trim(s) ==
    LET kept == {i \in 1..Len(s) : s[i] # " "}
    IN  IF kept = {} THEN << >>
        ELSE SubSeq(s, CHOOSE i \in kept : \A j \in kept : i <= j,
                       CHOOSE i \in kept : \A j \in kept : j <= i)

\* Array.prototype.slice, of non-negative arguments.
slice_Whole(s, start, end) == s

slice(s, start, end) ==
    SubSeq(s, start + 1, IF end < Len(s) THEN end ELSE Len(s))

\* Array.prototype.sort under (a, b) => b.number - a.number: a stable sort.
sortByNumberDescending_Unsorted(s) == s

RECURSIVE sortByNumberDescending(_)
sortByNumberDescending(s) ==
    IF Len(s) <= 1 THEN s
    ELSE LET rest == sortByNumberDescending(SubSeq(s, 1, Len(s) - 1))
             x    == s[Len(s)]
             ahead == {i \in 1..Len(rest) : rest[i].number >= x.number}
             k    == Cardinality(ahead)
         IN  SubSeq(rest, 1, k) \o <<x>> \o SubSeq(rest, k + 1, Len(rest))

\* The commit, as a build records it: in full, shortened, in upper case, and
\* another commit.
FullSha == <<"a", "b", "c", "d">>
ShortSha == <<"a", "b">>
UpperSha == <<"A", "B", "C", "D">>
OtherSha == <<"f", "f", "f", "f">>
RecordedShas == {FullSha, ShortSha, UpperSha, OtherSha}

\* The `commitSha` arguments: in full, shortened, and padded in upper case.
CommitShas == {FullSha, ShortSha, <<" ">> \o UpperSha \o <<" ">>}

\* A text that mentions a commit.
Mentioning(sha) == <<"a", "t", " ">> \o sha

\* Where a build records its commit.
ShaFields ==
    {"lastBuiltRevision", "buildsByBranchName", "GIT_COMMIT", "ghprbActualCommit",
     "pullRequest", "shortDescription", "displayName", "description"}

\* A build numbered `number` that records `sha` in `field`; the keys of
\* buildsByBranchName are listed in their order.
BuildRecording(field, sha, number) ==
    CASE field = "lastBuiltRevision" ->
            [number |-> number,
             actions |-> <<[_class |->   \* 'hudson.plugins.git.util.BuildData'
                <<"h", "u", "d", "s", "o", "n", ".", "p", "l", "u", "g", "i", "n", "s",
                  ".", "g", "i", "t", ".", "u", "t", "i", "l", ".", "B", "u", "i", "l",
                  "d", "D", "a", "t", "a">>,
                lastBuiltRevision |-> [SHA1 |-> sha]]>>]
      [] field = "buildsByBranchName" ->
            [number |-> number,
             actions |-> <<[buildsByBranchName |-> <<[revision |-> [SHA1 |-> sha]]>>]>>]
      [] field \in {"GIT_COMMIT", "ghprbActualCommit"} ->
            [number |-> number,
             actions |-> <<[parameters |-> <<[name |-> "BRANCH", value |-> <<"m">>],
                                             [name |-> field, value |-> sha]>>]>>]
      [] field = "pullRequest" ->
            [number |-> number,
             actions |-> <<[_class |->   \* 'scm.pull-request.Head'
                <<"s", "c", "m", ".", "p", "u", "l", "l", "-", "r", "e", "q", "u", "e",
                  "s", "t", ".", "H", "e", "a", "d">>,
                pullRequest |-> [source |-> [commit |-> sha]]]>>]
      [] field = "shortDescription" ->
            [number |-> number,
             actions |-> <<[_class |-> <<"x">>]>>,
             causes |-> <<[shortDescription |-> Mentioning(sha)]>>]
      [] field = "displayName" ->
            [number |-> number, displayName |-> Mentioning(sha)]
      [] field = "description" ->
            [number |-> number, displayName |-> <<"#">>, description |-> Mentioning(sha)]

\* A build that records no commit.
PlainBuild(number) == [number |-> number, displayName |-> <<"#">>]

\* What a build may look like: `shape.field` is where it records `shape.sha`.
Shapes == {[field |-> "none"]} \cup [field : ShaFields, sha : RecordedShas]

\* The shapes explored in a job of several builds.
CommonShapes ==
    {[field |-> "none"],
     [field |-> "lastBuiltRevision", sha |-> FullSha],
     [field |-> "lastBuiltRevision", sha |-> OtherSha],
     [field |-> "GIT_COMMIT", sha |-> ShortSha],
     [field |-> "shortDescription", sha |-> FullSha]}

BuildShaped(shape, number) ==
    IF shape.field = "none" THEN PlainBuild(number)
    ELSE BuildRecording(shape.field, shape.sha, number)

\* The lists of at most MaxBuilds builds, of distinct numbers in any order.
NumberLists ==
    {s \in UNION {[1..n -> BuildNumbers] : n \in 0..MaxBuilds} :
        \A i, j \in 1..Len(s) : s[i] = s[j] => i = j}

BuildLists ==
    UNION {{[i \in 1..Len(s) |-> BuildShaped(f[i], s[i])] :
                f \in [1..Len(s) -> IF Len(s) = 1 THEN Shapes ELSE CommonShapes]} :
            s \in NumberLists}

\* The job, as GET <job>/api/json reports it: with or without a builds list.
JobInfos == {[name |-> "job"]} \cup {[name |-> "job", builds |-> b] : b \in BuildLists}

\* GET <job>/<number>/api/json
BuildNumbered(number) ==
    LET b == jenkinsJob.builds
    IN  b[CHOOSE i \in 1..Len(b) : b[i].number = number]

\* const normalizedCommitSha
normalizedCommitSha == toLowerCase(trim(scanCommitSha))

\* The three-way comparison of a recorded commit with the normalized one.
ShaMatches(sha, normalized) ==
    \/ sha = normalized
    \/ startsWith(sha, normalized)
    \/ startsWith(normalized, sha)

\* Method 1
LastBuiltRevisionMatches(action, normalized) ==
    /\ Has(action, "_class")
    /\ includes(action._class,   \* 'hudson.plugins.git'
                <<"h", "u", "d", "s", "o", "n", ".", "p", "l", "u", "g", "i", "n", "s",
                  ".", "g", "i", "t">>)
    /\ Has(action, "lastBuiltRevision")
    /\ Has(action.lastBuiltRevision, "SHA1")
    /\ action.lastBuiltRevision.SHA1 # << >>
    /\ ShaMatches(toLowerCase(action.lastBuiltRevision.SHA1), normalized)

\* Method 2
BuildsByBranchNameMatches(action, normalized) ==
    /\ Has(action, "buildsByBranchName")
    /\ \E b \in 1..Len(action.buildsByBranchName) :
        LET branch == action.buildsByBranchName[b]
        IN  /\ Has(branch, "revision")
            /\ Has(branch.revision, "SHA1")
            /\ branch.revision.SHA1 # << >>
            /\ ShaMatches(toLowerCase(branch.revision.SHA1), normalized)

\* Method 3
ParametersMatch(action, normalized) ==
    /\ Has(action, "parameters")
    /\ \E p \in 1..Len(action.parameters) :
        LET param == action.parameters[p]
        IN  /\ param.name \in {"GIT_COMMIT", "ghprbActualCommit"}
            /\ param.value # << >>
            /\ ShaMatches(toLowerCase(param.value), normalized)

\* Method 4
PullRequestMatches(action, normalized) ==
    /\ Has(action, "_class")
    /\ includes(action._class,   \* 'pull-request'
                <<"p", "u", "l", "l", "-", "r", "e", "q", "u", "e", "s", "t">>)
    /\ Has(action, "pullRequest")
    /\ Has(action.pullRequest, "source")
    /\ Has(action.pullRequest.source, "commit")
    /\ action.pullRequest.source.commit # << >>
    /\ ShaMatches(toLowerCase(action.pullRequest.source.commit), normalized)

\* Method 5
CausesMatch(build, normalized) ==
    /\ Has(build, "causes")
    /\ \E c \in 1..Len(build.causes) :
        /\ Has(build.causes[c], "shortDescription")
        /\ build.causes[c].shortDescription # << >>
        /\ includes(build.causes[c].shortDescription, normalized)

\* Method 6
TextMatches(build, normalized) ==
    \/ /\ Has(build, "displayName")
       /\ build.displayName # << >>
       /\ includes(build.displayName, normalized)
    \/ /\ Has(build, "description")
       /\ build.description # << >>
       /\ includes(build.description, normalized)

\* let isMatch, once the six methods have run on a build.
isMatch(build, normalized) ==
    \/ /\ Has(build, "actions")
       /\ \E a \in 1..Len(build.actions) :
            \/ LastBuiltRevisionMatches(build.actions[a], normalized)
            \/ BuildsByBranchNameMatches(build.actions[a], normalized)
            \/ ParametersMatch(build.actions[a], normalized)
            \/ PullRequestMatches(build.actions[a], normalized)
    \/ CausesMatch(build, normalized)
    \/ TextMatches(build, normalized)

ScanInit ==
    /\ scanPc = "begin"
    /\ jenkinsJob \in JobInfos
    /\ scanCommitSha \in CommitShas
    /\ maxBuildsToCheck \in 0..MaxBuilds
    /\ buildsToCheck = << >>
    /\ getBuildCalls = 0
    /\ matchingBuilds = << >>
    /\ scanOutcome = "running"
    /\ scanResult = Undefined
    /\ WorkflowIdle
    /\ PollerIdle
    /\ RetrierIdle
    /\ PureIdle
    /\ LookupIdle
    /\ ExtrasIdle

\* The function leaves with `value` returned, or with `value` thrown.
Scan_Leaves(how, value) ==
    /\ scanPc' = "done"
    /\ scanOutcome' = how
    /\ scanResult' = value

\* The code after the loop: the latest of the matching builds, or null.
Scan_Finish_ThrowsWhenNone(matching) ==
    /\ matchingBuilds' = sortByNumberDescending(matching)
    /\ IF Len(matching) = 0
       THEN Scan_Leaves("thrown", Error(<<"No builds found matching commit SHA">>))
       ELSE Scan_Leaves("returned", sortByNumberDescending(matching)[1])
    /\ UNCHANGED getBuildCalls

Scan_Finish(matching) ==
    /\ matchingBuilds' = sortByNumberDescending(matching)
    /\ IF Len(matching) = 0
       THEN Scan_Leaves("returned", Null)
       ELSE Scan_Leaves("returned", sortByNumberDescending(matching)[1])
    /\ UNCHANGED getBuildCalls

\* One turn of the loop over `toCheck`, up to its await of getBuild.
Scan_Loop(toCheck, matching) ==
    IF getBuildCalls < Len(toCheck)
    THEN /\ getBuildCalls' = getBuildCalls + 1
         /\ matchingBuilds' = matching
         /\ scanPc' = "getBuild"
         /\ UNCHANGED <<scanOutcome, scanResult>>
    ELSE Scan_Finish(matching)

\* Up to the await of getJob.
Scan_Begin ==
    /\ scanPc = "begin"
    /\ scanPc' = "getJob"
    /\ UNCHANGED <<workflow, poller, retrier, pure, lookup, extras, jenkinsJob, scanCommitSha,
                   maxBuildsToCheck, buildsToCheck, getBuildCalls, matchingBuilds,
                   scanOutcome, scanResult>>

\* getJob resolves: no builds, or the window of builds to check.
Scan_GetJobSettles ==
    /\ scanPc = "getJob"
    /\ IF ~Has(jenkinsJob, "builds") \/ Len(jenkinsJob.builds) = 0
       THEN /\ Scan_Leaves("returned", Null)
            /\ UNCHANGED <<buildsToCheck, getBuildCalls, matchingBuilds>>
       ELSE LET refs == [i \in 1..Len(jenkinsJob.builds) |->
                            [number |-> jenkinsJob.builds[i].number]]
                toCheck == slice(refs, 0, maxBuildsToCheck)
            IN  /\ buildsToCheck' = toCheck
                /\ Scan_Loop(toCheck, << >>)
    /\ UNCHANGED <<workflow, poller, retrier, pure, lookup, extras, jenkinsJob, scanCommitSha,
                   maxBuildsToCheck>>

\* getBuild resolves with the build asked for.
Scan_GetBuildSettles ==
    /\ scanPc = "getBuild"
    /\ LET build == BuildNumbered(buildsToCheck[getBuildCalls].number)
       IN  Scan_Loop(buildsToCheck,
                     IF isMatch(build, normalizedCommitSha)
                     THEN Append(matchingBuilds, build)
                     ELSE matchingBuilds)
    /\ UNCHANGED <<workflow, poller, retrier, pure, lookup, extras, jenkinsJob, scanCommitSha,
                   maxBuildsToCheck, buildsToCheck>>

\* getJob or getBuild rejects: the catch block rethrows.
Scan_FetchRejects ==
    /\ scanPc \in {"getJob", "getBuild"}
    /\ Scan_Leaves("thrown", Rejection(scanPc))
    /\ UNCHANGED <<workflow, poller, retrier, pure, lookup, extras, jenkinsJob, scanCommitSha,
                   maxBuildsToCheck, buildsToCheck, getBuildCalls, matchingBuilds>>

getBuildByCommitSha ==
    \/ Scan_Begin
    \/ Scan_GetJobSettles
    \/ Scan_GetBuildSettles
    \/ Scan_FetchRejects

ScanSpec == ScanInit /\ [][getBuildByCommitSha]_vars

(***************************************************************************)
(* Properties of getBuildByCommitSha                                       *)
(***************************************************************************)
\* The builds of the window, whose details the scan fetches.
Scanned == {BuildNumbered(buildsToCheck[i].number) : i \in 1..Len(buildsToCheck)}

\* The builds collected as matching.
Matching == {matchingBuilds[i] : i \in 1..Len(matchingBuilds)}

\* `build` records the commit `sha`, in whichever field.
Records(build, sha) ==
    \E field \in ShaFields : build = BuildRecording(field, sha, build.number)

\* C24: commit matching is symmetric under prefix containment in every match
\* method: a scanned build that records, in any of its fields (SCM revision,
\* branch map, build parameter, pull-request commit, cause or description
\* text), a commit that is a prefix of the commit asked for, or that the commit
\* asked for is a prefix of, is collected as a match.
C24_PrefixSymmetricInEveryMethod ==
    scanOutcome = "returned" =>
        \A build \in Scanned : \A sha \in RecordedShas :
            /\ Records(build, sha)
            /\ toLowerCase(sha) = sha
            /\ startsWith(sha, normalizedCommitSha) \/ startsWith(normalizedCommitSha, sha)
            => build \in Matching

\* C25: commit matching is case-insensitive in every match method: a scanned
\* build that records, in any of its fields (cause descriptions, display name
\* and description included), the commit asked for in whatever case is
\* collected as a match.
C25_CaseInsensitiveInEveryMethod ==
    scanOutcome = "returned" =>
        \A build \in Scanned : \A sha \in RecordedShas :
            Records(build, sha) /\ toLowerCase(sha) = normalizedCommitSha
            => build \in Matching

\* C26: the most recent match wins: when builds of the scanned window match,
\* the one returned is the matching build of the highest number, whatever the
\* order of the listing and whichever method matched.
C26_MostRecentMatchWins ==
    scanOutcome = "returned" =>
        LET matches == {b \in Scanned : isMatch(b, normalizedCommitSha)}
        IN  matches # {} =>
                /\ scanResult \in matches
                /\ \A b \in matches : b.number <= scanResult.number

\* Two builds matched by different methods, the later one listed last.
C26_Witness ==
    /\ scanOutcome = "returned"
    /\ Len(matchingBuilds) = 2
    /\ jenkinsJob.builds[1].number < jenkinsJob.builds[2].number
    /\ Has(jenkinsJob.builds[1], "causes")
    /\ ~Has(jenkinsJob.builds[2], "causes")
    /\ scanResult = jenkinsJob.builds[2]

\* C27: an absent commit is not an error: when the job has no builds, and when
\* no build of the scanned window matches, the function returns null; it
\* throws only what a fetch rejected with.
C27_AbsentCommitIsNull ==
    /\ scanOutcome = "thrown" => scanResult \in {Rejection("getJob"), Rejection("getBuild")}
    /\ scanOutcome = "returned" /\ (\A b \in Scanned : ~isMatch(b, normalizedCommitSha))
        => scanResult = Null

\* The window of a job with builds was scanned to its end without a match.
C27_Witness ==
    /\ scanOutcome = "returned"
    /\ scanResult = Null
    /\ getBuildCalls > 0
    /\ getBuildCalls = Len(jenkinsJob.builds)

\* C28: the scan is bounded: the details of at most maxBuildsToCheck builds are
\* fetched, those the listing starts with, and a build listed beyond them is
\* never returned.
C28_ScanBounded ==
    /\ getBuildCalls <= maxBuildsToCheck
    /\ scanPc = "getBuild" =>
        buildsToCheck[getBuildCalls].number = jenkinsJob.builds[getBuildCalls].number
    /\ scanOutcome = "returned" /\ scanResult # Null =>
        \E i \in 1..maxBuildsToCheck :
            i <= Len(jenkinsJob.builds) /\ jenkinsJob.builds[i] = scanResult

\* A build that matches lies beyond the window and is not returned.
C28_Witness ==
    /\ scanOutcome = "returned"
    /\ scanResult = Null
    /\ maxBuildsToCheck = 1
    /\ getBuildCalls = 1
    /\ Len(jenkinsJob.builds) = 2
    /\ isMatch(jenkinsJob.builds[2], normalizedCommitSha)

(***************************************************************************)
(* AzureCI.getPipeline: the pipeline of the run found for a pull request.  *)
(***************************************************************************)
\* 'refs/heads/'
RefsHeads == <<"r", "e", "f", "s", "/", "h", "e", "a", "d", "s", "/">>

MainBranch == <<"m", "a", "i", "n">>

DevBranch == <<"d", "e", "v">>

\* The `pullRequest` arguments: with the commit of its head, with its branch
\* only (bare or qualified), and with neither.
LookupPullRequests ==
    {[head |-> [sha |-> FullSha, ref |-> MainBranch]],
     [head |-> [ref |-> MainBranch]],
     [head |-> [ref |-> RefsHeads \o MainBranch]],
     [pullNumber |-> 42]}

\* What a run may be: its trigger, its progress and the commit it built.
RunShapes ==
    [reason : {"pullRequest", "individualCI", "manual"},
     progress : {<<"completed", "succeeded">>, <<"inProgress", NoResult>>},
     built : {<<FullSha, RefsHeads \o MainBranch>>, <<OtherSha, RefsHeads \o DevBranch>>}]

\* The name of a run is the build number the provider gave it, a dated text
\* such as 2026.11.<revision>, here the sequence of its three numbers. A
\* number n in a template string is the one-number text String(n), and the
\* id `${pipelineDef.id}-${azureRun.id}` is a text of two numbers.
RunName(id) == <<2026, 11, id>>

RunShaped(shape, id) ==
    [id |-> id, name |-> RunName(id), state |-> shape.progress[1],
     result |-> shape.progress[2], reason |-> shape.reason,
     sourceVersion |-> shape.built[1], sourceBranch |-> shape.built[2]]

\* The listings of at most MaxRuns runs, the latest run (of the highest id) first.
RunListings ==
    UNION {{[i \in 1..n |-> RunShaped(f[i], n - i + 1)] : f \in [1..n -> RunShapes]} :
            n \in 0..MaxRuns}

\* The definition getPipelineDefinition finds by name, or null.
PipelineDefinitions == {Null, [id |-> 1, name |-> "component"]}

LookupInit ==
    /\ lookupPc = "begin"
    /\ azureDefinition \in PipelineDefinitions
    /\ azureRuns \in (IF azureDefinition = Null THEN {<< >>} ELSE RunListings)
    /\ pullRequest \in LookupPullRequests
    /\ wantedStatus \in {NoString, "SUCCESS"}
    /\ eventType \in {NoString} \cup EventType
    /\ lookupQuery = Undefined
    /\ lookupFault = FALSE
    /\ lookupOutcome = "running"
    /\ lookupResult = Undefined
    /\ WorkflowIdle
    /\ PollerIdle
    /\ RetrierIdle
    /\ PureIdle
    /\ ScannerIdle
    /\ ExtrasIdle

\* pipelineInstance.sha
RunSha(azureRun) ==
    IF Has(azureRun, "sourceVersion") /\ azureRun.sourceVersion # << >>
    THEN azureRun.sourceVersion
    ELSE IF Has(azureRun, "triggerInfo") /\ Has(azureRun.triggerInfo, "ci.sourceSha")
    THEN azureRun.triggerInfo["ci.sourceSha"]
    ELSE IF Has(azureRun, "triggerInfo") /\ Has(azureRun.triggerInfo, "pr.sourceSha")
    THEN azureRun.triggerInfo["pr.sourceSha"]
    ELSE NoString

convertAzureRunToPipeline(azureRun, pipelineDef) ==
    [id |-> <<pipelineDef.id, azureRun.id>>,
     name |-> azureRun.name,
     status |-> mapAzureStatusToPipelineStatus(azureRun),
     sha |-> RunSha(azureRun)]

\* The function leaves with `value` returned.
Lookup_Returns(value) ==
    /\ lookupPc' = "done"
    /\ lookupOutcome' = "returned"
    /\ lookupResult' = value

\* Variant of Lookup_Select: the pipelineStatus argument is not looked at.
Lookup_Select_IgnoresStatus(runs) ==
    IF Len(runs) = 0 THEN Lookup_Returns(Null)
    ELSE Lookup_Returns(convertAzureRunToPipeline(runs[1], azureDefinition))

\* Variant of Lookup_Select: an empty listing is an error.
Lookup_Select_NoRunIsError(runs) ==
    IF Len(runs) = 0
    THEN /\ lookupPc' = "done"
         /\ lookupOutcome' = "thrown"
         /\ lookupResult' = Error(<<"No pipeline runs found">>)
    ELSE Lookup_Returns(convertAzureRunToPipeline(runs[1], azureDefinition))

\* The code from `if (runs.length === 0)` on.  The array that runs.filter
\* returns (`kept`) is dropped, and runs[0] is read from `runs` itself.
Lookup_Select(runs) ==
    IF Len(runs) = 0 THEN Lookup_Returns(Null)
    ELSE LET Wanted(run) ==
                 CASE eventType = "PULL_REQUEST" -> run.reason = "pullRequest"
                   [] eventType = "PUSH" -> run.reason = "individualCI"
                   [] OTHER -> TRUE
             kept == SelectSeq(runs, Wanted)
             targetRun == runs[1]
             found == convertAzureRunToPipeline(targetRun, azureDefinition)
         IN  IF wantedStatus # NoString /\ found.status # wantedStatus
             THEN Lookup_Returns(Null)
             ELSE Lookup_Returns(found)

\* Up to the await of getPipelineDefinition.
Lookup_Begin ==
    /\ lookupPc = "begin"
    /\ lookupPc' = "getPipelineDefinition"
    /\ UNCHANGED <<workflow, poller, retrier, pure, scanner, extras, azureDefinition, azureRuns,
                   pullRequest, wantedStatus, eventType, lookupQuery, lookupFault,
                   lookupOutcome, lookupResult>>

\* getPipelineDefinition resolves: null, or the definition, whose runs are
\* queried by the commit of the head, else by its branch, else for the latest.
Lookup_DefinitionSettles ==
    /\ lookupPc = "getPipelineDefinition"
    /\ IF azureDefinition = Null
       THEN /\ Lookup_Returns(Null)
            /\ UNCHANGED lookupQuery
       ELSE /\ UNCHANGED <<lookupOutcome, lookupResult>>
            /\ IF Has(pullRequest, "head") /\ Has(pullRequest.head, "sha")
               THEN /\ lookupQuery' = [sourceVersion |-> pullRequest.head.sha,
                                       queryOrder |-> "finishTimeDescending"]
                    /\ lookupPc' = "listPipelineRuns"
               ELSE IF Has(pullRequest, "head") /\ Has(pullRequest.head, "ref")
               THEN /\ lookupQuery' =
                        [branchName |-> IF startsWith(pullRequest.head.ref, RefsHeads)
                                        THEN pullRequest.head.ref
                                        ELSE RefsHeads \o pullRequest.head.ref,
                         top |-> 1,
                         queryOrder |-> "finishTimeDescending"]
                    /\ lookupPc' = "listPipelineRuns"
               ELSE /\ lookupQuery' = [top |-> 1, queryOrder |-> "finishTimeDescending"]
                    /\ lookupPc' = "getLatestPipelineRun"
    /\ UNCHANGED <<workflow, poller, retrier, pure, scanner, extras, azureDefinition, azureRuns,
                   pullRequest, wantedStatus, eventType, lookupFault>>

\* listPipelineRuns resolves: it requests pipelines/<id>/runs without any of
\* the options and returns the whole listing.
Lookup_ListPipelineRunsSettles ==
    /\ lookupPc = "listPipelineRuns"
    /\ Lookup_Select(azureRuns)
    /\ UNCHANGED <<workflow, poller, retrier, pure, scanner, extras, azureDefinition, azureRuns,
                   pullRequest, wantedStatus, eventType, lookupQuery, lookupFault>>

\* getLatestPipelineRun resolves: the first run of the listing, or null.
Lookup_GetLatestPipelineRunSettles ==
    /\ lookupPc = "getLatestPipelineRun"
    /\ LET latestRun == IF Len(azureRuns) > 0 THEN azureRuns[1] ELSE Null
       IN  Lookup_Select(IF latestRun # Null THEN <<latestRun>> ELSE << >>)
    /\ UNCHANGED <<workflow, poller, retrier, pure, scanner, extras, azureDefinition, azureRuns,
                   pullRequest, wantedStatus, eventType, lookupQuery, lookupFault>>

\* A request rejects: the catch block logs the error and returns null.
Lookup_RequestRejects ==
    /\ lookupPc \in {"getPipelineDefinition", "listPipelineRuns", "getLatestPipelineRun"}
    /\ lookupFault' = TRUE
    /\ Lookup_Returns(Null)
    /\ UNCHANGED <<workflow, poller, retrier, pure, scanner, extras, azureDefinition, azureRuns,
                   pullRequest, wantedStatus, eventType, lookupQuery>>

getPipeline ==
    \/ Lookup_Begin
    \/ Lookup_DefinitionSettles
    \/ Lookup_ListPipelineRunsSettles
    \/ Lookup_GetLatestPipelineRunSettles
    \/ Lookup_RequestRejects

LookupSpec == LookupInit /\ [][getPipeline]_vars

(***************************************************************************)
(* Properties of AzureCI.getPipeline                                       *)
(***************************************************************************)
\* The run a returned pipeline was made from.
RunOf(p) == azureRuns[CHOOSE i \in 1..Len(azureRuns) : azureRuns[i].id = p.id[2]]

\* C29: the event-type filter is applied before a run is chosen: with
\* PULL_REQUEST the pipeline returned is never of a run whose reason is not
\* pullRequest, with PUSH never of a run whose reason is not individualCI, and
\* the result is null when no candidate run has the requested reason.
C29_EventTypeFilterApplied ==
    lookupOutcome = "returned" /\ lookupResult # Null =>
        /\ eventType = "PULL_REQUEST" => RunOf(lookupResult).reason = "pullRequest"
        /\ eventType = "PUSH" => RunOf(lookupResult).reason = "individualCI"

\* C30: "no pipeline yet" is a value: with no pipeline definition, and with a
\* run query that returns no run, the function returns null and does not
\* throw.
C30_NoPipelineIsNull ==
    /\ lookupOutcome # "thrown"
    /\ lookupOutcome = "returned" /\ (azureDefinition = Null \/ Len(azureRuns) = 0)
        => lookupResult = Null

\* The definition exists and the run query came back empty.
C30_Witness ==
    /\ lookupOutcome = "returned"
    /\ lookupResult = Null
    /\ ~lookupFault
    /\ azureDefinition # Null
    /\ lookupQuery # Undefined
    /\ Len(azureRuns) = 0

\* C31: a transport fault is kept distinct from "not found": when a request
\* made by getPipeline fails, the caller receives an error outcome, never the
\* null result that means that no pipeline matched.
C31_TransportFaultSurfaced ==
    lookupPc = "done" /\ lookupFault => lookupOutcome = "thrown" /\ lookupResult # Null

\* The `ref` of a pull request head, qualified as the branch query wants it.
QualifiedRef(ref) == IF startsWith(ref, RefsHeads) THEN ref ELSE RefsHeads \o ref

\* C32: the run lookup is as precise as the reference allows: the run whose
\* pipeline is returned was built from the commit of the pull request head
\* when the head names one, and else from its branch (as refs/heads/<name>)
\* when it names one.
C32_RunOfTheReferenceAskedFor ==
    lookupOutcome = "returned" /\ lookupResult # Null =>
        IF Has(pullRequest, "head") /\ Has(pullRequest.head, "sha")
        THEN RunOf(lookupResult).sourceVersion = pullRequest.head.sha
        ELSE IF Has(pullRequest, "head") /\ Has(pullRequest.head, "ref")
        THEN RunOf(lookupResult).sourceBranch = QualifiedRef(pullRequest.head.ref)
        ELSE TRUE

\* C38: with a pipelineStatus given, a pipeline is returned only if its
\* canonical status is the status given; with none given, the pipeline of the
\* chosen run (the first of the listing) is returned whatever its status.
C38_StatusFilterHonoured ==
    lookupOutcome = "returned" =>
        /\ wantedStatus # NoString /\ lookupResult # Null
            => lookupResult.status = wantedStatus
        /\ wantedStatus = NoString /\ ~lookupFault /\ azureDefinition # Null
                /\ Len(azureRuns) > 0
            => lookupResult = convertAzureRunToPipeline(azureRuns[1], azureDefinition)

\* A run that has not succeeded is withheld from a caller that asked for SUCCESS.
C38_Witness ==
    /\ lookupOutcome = "returned"
    /\ wantedStatus = "SUCCESS"
    /\ ~lookupFault
    /\ Len(azureRuns) > 0
    /\ azureRuns[1].state = "inProgress"
    /\ lookupResult = Null

(***************************************************************************)
(* Properties of the workflows when no pipeline is found                   *)
(***************************************************************************)
\* C37: when the lookup of the PR pipeline returns null, the workflow
\* (promoteToEnvironmentWithPR, and likewise handleSourceRepoCodeChanges)
\* fails with an error and has called neither mergePullRequest nor
\* syncApplication.
C37_NoPipelineNoMerge ==
    fn \in {WithPR, SourceChange} /\ pipeline = Null =>
        /\ outcome = "thrown"
        /\ error.name = "Error"
        /\ \A i \in 1..Len(calls) : calls[i].op \notin {"mergePullRequest", "syncApplication"}

\* The promotion has failed on a lookup that found no pipeline.
C37_Witness ==
    /\ fn = WithPR
    /\ pipeline = Null
    /\ outcome = "thrown"
    /\ error = Error(<<"No pipeline was triggered by the promotion PR">>)
    /\ calls[Len(calls)].op \in {"getPipeline", "getPipelineFromPullRequest"}

(***************************************************************************)
(* promoteToEnvironmentWithPR (upstream side) on AzureCI, while the        *)
(* provider runs the pipeline of the promotion PR.                         *)
(***************************************************************************)
RaceInit ==
    /\ fn = WithPR
    /\ side = "upstream"
    /\ environment \in Environments
    /\ pc = "begin"
    /\ inflight = {}
    /\ calls = << >>
    /\ application = Undefined
    /\ pr = Undefined
    /\ pipeline = Undefined
    /\ pipelineStatus = NoString
    /\ mergedPR = Undefined
    /\ pushPipeline = Undefined
    /\ pushStatus = NoString
    /\ commitSha = NoString
    /\ syncResult = Undefined
    /\ error = NoError
    /\ logged = << >>
    /\ outcome = "running"
    /\ lookupPc = "idle"
    /\ azureDefinition = [id |-> 1, name |-> "component"]
    /\ azureRuns \in {l \in RunListings : Len(l) <= 1}
    /\ pullRequest = Undefined
    /\ wantedStatus = NoString
    /\ eventType = NoString
    /\ lookupQuery = Undefined
    /\ lookupFault = FALSE
    /\ lookupOutcome = "running"
    /\ lookupResult = Undefined
    /\ PollerIdle
    /\ RetrierIdle
    /\ PureIdle
    /\ ScannerIdle
    /\ ExtrasIdle

\* The provider finishes a run that was in progress.
Provider_RunCompletes ==
    /\ \E i \in 1..Len(azureRuns) : \E res \in {"succeeded", "failed"} :
        /\ azureRuns[i].state = "inProgress"
        /\ azureRuns' = [azureRuns EXCEPT ![i].state = "completed", ![i].result = res]
    /\ UNCHANGED <<workflow, poller, retrier, pure, scanner, extras, lookupPc, azureDefinition,
                   pullRequest, wantedStatus, eventType, lookupQuery, lookupFault,
                   lookupOutcome, lookupResult>>

\* ci.getPipeline(pr, PipelineStatus.RUNNING, EventType.PULL_REQUEST) is entered.
Race_LookupStarts ==
    /\ pc = "getPipeline"
    /\ lookupPc = "idle"
    /\ lookupPc' = "begin"
    /\ pullRequest' \in LookupPullRequests
    /\ wantedStatus' = "RUNNING"
    /\ eventType' = "PULL_REQUEST"
    /\ UNCHANGED <<workflow, poller, retrier, pure, scanner, extras, azureDefinition, azureRuns,
                   lookupQuery, lookupFault, lookupOutcome, lookupResult>>

\* A step of getPipeline while the workflow awaits it.
Race_Lookup ==
    /\ pc = "getPipeline"
    /\ getPipeline

\* The await of ci.getPipeline resumes with what getPipeline returned.
Race_GetPipelineSettles ==
    /\ pc = "getPipeline"
    /\ lookupPc = "done"
    /\ IF lookupResult = Null
       THEN /\ pipeline' = Null
            /\ CatchWithPR("getPipeline",
                           Error(<<"No pipeline was triggered by the promotion PR">>))
       ELSE /\ pipeline' = Pipeline("PULL_REQUEST", lookupResult.status)
            /\ Proceed("getPipeline", Call("waitForPipelineToFinish", "PULL_REQUEST"),
                       "waitForPipelineToFinish")
    /\ UNCHANGED <<clients, input, application, pr, pipelineStatus, mergedPR, pushPipeline,
                   pushStatus, commitSha, syncResult>>

RaceNext ==
    \/ WithPR_Begin
    \/ WithPR_GetApplicationSettles
    \/ WithPR_CreatePRSettles
    \/ Race_LookupStarts
    \/ Race_Lookup
    \/ Race_GetPipelineSettles
    \/ WithPR_WaitSettles
    \/ WithPR_ExpectSettles
    \/ WithPR_MergeSettles
    \/ WithPR_SyncSettles
    \/ WithPR_WaitSyncSettles
    \/ Provider_RunCompletes

RaceSpec == RaceInit /\ [][RaceNext]_vars

\* The run of the promotion PR had succeeded when getPipeline listed it: no
\* request failed, and the run the lookup read is completed and succeeded (a
\* completed run stays as it is).
SucceededAtLookup ==
    /\ lookupPc = "done"
    /\ ~lookupFault
    /\ Len(azureRuns) > 0
    /\ mapAzureStatusToPipelineStatus(azureRuns[1]) = "SUCCESS"
    /\ lookupResult = Null \/ lookupResult.status = "SUCCESS"

\* C36: the promotion does not depend on how fast the provider is: when the PR
\* pipeline has already reached SUCCESS by the time the workflow looks it up,
\* the workflow does not fail for want of a pipeline but goes on to the merge.
C36_FastProviderStillMerges ==
    SucceededAtLookup /\ pc # "getPipeline" =>
        /\ pipeline # Null
        /\ ~(outcome = "thrown"
             /\ error = Error(<<"No pipeline was triggered by the promotion PR">>))

(***************************************************************************)
(* AzureCI.checkPipelineStatus, githubActionsClient.ts 1216-1220, over     *)
(* AzureClient.getPipelineRun, azureClient.ts 206-226. The provider holds  *)
(* the definition and its runs and finishes runs on its own; the pipeline  *)
(* under check is one convertAzureRunToPipeline built from a listed run.   *)
(***************************************************************************)

\* `${n}` of a number.
String(n) == <<n>>

RefetchInit ==
    /\ statusPc = "begin"
    /\ azureDefinition = [id |-> 1, name |-> "component"]
    /\ azureRuns \in {l \in RunListings : Len(l) > 0}
    /\ checkedPipeline \in {convertAzureRunToPipeline(azureRuns[i], azureDefinition) :
                              i \in 1..Len(azureRuns)}
    /\ statusRequest = Undefined
    /\ statusOutcome = "running"
    /\ statusResult = NoString
    /\ lookupPc = "idle"
    /\ pullRequest = Undefined
    /\ wantedStatus = NoString
    /\ eventType = NoString
    /\ lookupQuery = Undefined
    /\ lookupFault = FALSE
    /\ lookupOutcome = "running"
    /\ lookupResult = Undefined
    /\ WorkflowIdle
    /\ PollerIdle
    /\ RetrierIdle
    /\ PureIdle
    /\ ScannerIdle
    /\ ListingIdle
    /\ AuthIdle
    /\ StrategyIdle

\* The runs that `pipelines/${pipelineId}/runs/${runId}` names at the provider:
\* the runs of the definition whose id reads pipelineId, whose id reads runId.
RunsAt(request) ==
    {i \in 1..Len(azureRuns) :
        /\ request.pipelineId = String(azureDefinition.id)
        /\ request.runId = String(azureRuns[i].id)}

\* this.azureClient.getPipelineRun(pipeline.id, pipeline.name!) is called.
Status_Begin ==
    /\ statusPc = "begin"
    /\ statusRequest' = [pipelineId |-> checkedPipeline.id, runId |-> checkedPipeline.name]
    /\ statusPc' = "getPipelineRun"
    /\ UNCHANGED <<workflow, poller, retrier, pure, scanner, lookup, listing, auth, strategy,
                   checkedPipeline, statusOutcome, statusResult>>

\* The provider answers: with the run the path names, and then the status of
\* that run is returned, or with 404 when the path names none, and then
\* client.get rejects, getPipelineRun rethrows and checkPipelineStatus rejects.
Status_GetPipelineRunSettles ==
    /\ statusPc = "getPipelineRun"
    /\ statusPc' = "done"
    /\ IF RunsAt(statusRequest) # {}
       THEN \E i \in RunsAt(statusRequest) :
                /\ statusOutcome' = "returned"
                /\ statusResult' = mapAzureStatusToPipelineStatus(azureRuns[i])
       ELSE /\ statusOutcome' = "thrown"
            /\ statusResult' = "Request failed with status code 404"
    /\ UNCHANGED <<workflow, poller, retrier, pure, scanner, lookup, listing, auth, strategy,
                   checkedPipeline, statusRequest>>

\* The request fails on the way.
Status_RequestRejects ==
    /\ statusPc = "getPipelineRun"
    /\ statusPc' = "done"
    /\ statusOutcome' = "thrown"
    /\ statusResult' = "Network Error"
    /\ UNCHANGED <<workflow, poller, retrier, pure, scanner, lookup, listing, auth, strategy,
                   checkedPipeline, statusRequest>>

checkPipelineStatus ==
    \/ Status_Begin
    \/ Status_GetPipelineRunSettles
    \/ Status_RequestRejects

RefetchNext ==
    \/ checkPipelineStatus
    \/ Provider_RunCompletes

RefetchSpec == RefetchInit /\ [][RefetchNext]_vars

\* C39: for a Pipeline built by convertAzureRunToPipeline from run r of the
\* definition d, the request of checkPipelineStatus addresses run r of
\* definition d, and the status returned is the normalization of the state
\* that run is in.
C39_RefetchAddressesTheRun ==
    /\ statusPc \in {"getPipelineRun", "done"}
        => statusRequest = [pipelineId |-> String(checkedPipeline.id[1]),
                            runId |-> String(checkedPipeline.id[2])]
    /\ statusOutcome = "returned"
        => statusResult = mapAzureStatusToPipelineStatus(RunOf(checkedPipeline))

(***************************************************************************)
(* The listings of what is in flight: AzureClient.getRunningPipelineRuns,  *)
(* azureClient.ts 329-331 over listPipelineRuns 281-327, and               *)
(* JenkinsClient.getRunningBuilds, githubActionsClient.ts 477-515. Each    *)
(* provider holds its runs or builds; Jenkins finishes builds on its own   *)
(* while getRunningBuilds fetches them one after the other.                *)
(***************************************************************************)

\* The builds of a job, the latest (of the highest number) first.
JobBuilds ==
    UNION {{[i \in 1..n |-> [number |-> n - i + 1, building |-> f[i].building,
                             result |-> f[i].result]] : f \in [1..n -> Builds]} :
            n \in 0..MaxBuilds}

InFlightInit ==
    /\ listingCallee \in {"getRunningPipelineRuns", "getRunningBuilds"}
    /\ listingPc = "begin"
    /\ azureDefinition = (IF listingCallee = "getRunningPipelineRuns"
                          THEN [id |-> 1, name |-> "component"] ELSE Null)
    /\ azureRuns \in (IF listingCallee = "getRunningPipelineRuns" THEN RunListings
                      ELSE {<< >>})
    /\ jenkinsBuilds \in (IF listingCallee = "getRunningBuilds" THEN JobBuilds ELSE {<< >>})
    /\ getBuildsFetched = << >>
    /\ runningBuilds = << >>
    /\ listingOutcome = "running"
    /\ listingResult = << >>
    /\ lookupPc = "idle"
    /\ pullRequest = Undefined
    /\ wantedStatus = NoString
    /\ eventType = NoString
    /\ lookupQuery = Undefined
    /\ lookupFault = FALSE
    /\ lookupOutcome = "running"
    /\ lookupResult = Undefined
    /\ WorkflowIdle
    /\ PollerIdle
    /\ RetrierIdle
    /\ PureIdle
    /\ ScannerIdle
    /\ RefetchIdle
    /\ AuthIdle
    /\ StrategyIdle

\* The function leaves: `value` is returned, or the error caught is rethrown.
Listing_Leaves(how, value) ==
    /\ listingPc' = "done"
    /\ listingOutcome' = how
    /\ listingResult' = value

\* Jenkins finishes a build that was building.
Jenkins_BuildCompletes ==
    /\ \E i \in 1..Len(jenkinsBuilds) : \E res \in JenkinsBuildResult :
        /\ jenkinsBuilds[i].building
        /\ jenkinsBuilds' = [jenkinsBuilds EXCEPT ![i].building = FALSE, ![i].result = res]
    /\ UNCHANGED <<workflow, poller, retrier, pure, scanner, lookup, refetch, auth, strategy,
                   listingCallee, listingPc, getBuildsFetched, runningBuilds, listingOutcome,
                   listingResult>>

\* getRunningPipelineRuns calls listPipelineRuns(pipelineId, {statusFilter:
\* IN_PROGRESS}), which sends `pipelines/${pipelineId}/runs` with the
\* api-version alone.
InFlight_Begin ==
    /\ listingPc = "begin"
    /\ listingCallee = "getRunningPipelineRuns"
    /\ listingPc' = "listPipelineRuns"
    /\ UNCHANGED <<workflow, poller, retrier, pure, scanner, lookup, refetch, auth, strategy,
                   listingCallee, jenkinsBuilds, getBuildsFetched, runningBuilds,
                   listingOutcome, listingResult>>

\* The provider answers a request without a filter with every run of the
\* pipeline; response.data.value || [] is returned as it is.
InFlight_ListPipelineRunsSettles ==
    /\ listingPc = "listPipelineRuns"
    /\ Listing_Leaves("returned", azureRuns)
    /\ UNCHANGED <<workflow, poller, retrier, pure, scanner, lookup, refetch, auth, strategy,
                   listingCallee, jenkinsBuilds, getBuildsFetched, runningBuilds>>

getRunningPipelineRuns ==
    \/ InFlight_Begin
    \/ InFlight_ListPipelineRunsSettles

\* The for loop of getRunningBuilds, entered with the `details` of the builds fetched so far:
\* the next build of the job is fetched, or runningBuilds is returned.
Running_Loop(details, running) ==
    /\ getBuildsFetched' = details
    /\ runningBuilds' = running
    /\ IF Len(details) < Len(jenkinsBuilds)
       THEN /\ listingPc' = "getBuild"
            /\ UNCHANGED <<listingOutcome, listingResult>>
       ELSE Listing_Leaves("returned", running)

\* The job is asked for with tree=builds[number,url].
Running_Begin ==
    /\ listingPc = "begin"
    /\ listingCallee = "getRunningBuilds"
    /\ listingPc' = "getJob"
    /\ UNCHANGED <<workflow, poller, retrier, pure, scanner, lookup, refetch, auth, strategy,
                   listingCallee, jenkinsBuilds, getBuildsFetched, runningBuilds,
                   listingOutcome, listingResult>>

\* The job resolves; const runningBuilds = [] and the loop is entered.
Running_GetJobSettles ==
    /\ listingPc = "getJob"
    /\ Running_Loop(<< >>, << >>)
    /\ UNCHANGED <<workflow, poller, retrier, pure, scanner, lookup, refetch, auth, strategy,
                   listingCallee, jenkinsBuilds>>

\* getBuild resolves with the build as it is now; it is pushed when
\* buildDetails.building === true.
Running_GetBuildSettles ==
    /\ listingPc = "getBuild"
    /\ LET buildDetails == jenkinsBuilds[Len(getBuildsFetched) + 1]
       IN  Running_Loop(Append(getBuildsFetched, buildDetails),
                        IF buildDetails.building = TRUE
                        THEN Append(runningBuilds, buildDetails)
                        ELSE runningBuilds)
    /\ UNCHANGED <<workflow, poller, retrier, pure, scanner, lookup, refetch, auth, strategy,
                   listingCallee, jenkinsBuilds>>

getRunningBuilds ==
    \/ Running_Begin
    \/ Running_GetJobSettles
    \/ Running_GetBuildSettles

\* A request of either function fails: the catch block logs and rethrows.
Listing_RequestRejects ==
    /\ listingPc \in {"listPipelineRuns", "getJob", "getBuild"}
    /\ Listing_Leaves("thrown", << >>)
    /\ UNCHANGED <<workflow, poller, retrier, pure, scanner, lookup, refetch, auth, strategy,
                   listingCallee, jenkinsBuilds, getBuildsFetched, runningBuilds>>

InFlightNext ==
    \/ getRunningPipelineRuns
    \/ getRunningBuilds
    \/ Listing_RequestRejects
    \/ Jenkins_BuildCompletes

InFlightSpec == InFlightInit /\ [][InFlightNext]_vars

\* The listing returned.
Listed(function) ==
    /\ listingCallee = function
    /\ listingOutcome = "returned"

\* C33: the in-flight listing returns non-terminal runs only: every run that
\* getRunningPipelineRuns returns is in state inProgress, and every build that
\* getRunningBuilds returns is one it fetched with building = true.
C33_InFlightOnly ==
    /\ Listed("getRunningPipelineRuns")
        => \A i \in 1..Len(listingResult) : listingResult[i].state = "inProgress"
    /\ Listed("getRunningBuilds")
        => \A i \in 1..Len(listingResult) :
            \E j \in 1..Len(getBuildsFetched) :
                /\ getBuildsFetched[j] = listingResult[i]
                /\ getBuildsFetched[j].building = TRUE

(***************************************************************************)
(* AuthorizeAzurePipeline.execute, azureCIPostCreateActionStrategy.ts      *)
(* 59-74, over AzureCI.authorizePipelineForVariableGroup and               *)
(* AzureCI.authorizePipelineForAgentPool, githubActionsClient.ts           *)
(* 1306-1316. Each authorization is a chain of three requests; the two     *)
(* chains are started together and their requests settle in any order.     *)
(* BaseCommand is not among the sources: logStart and logComplete are the  *)
(* log lines they name and ensureServicesInitialized is a promise that     *)
(* resolves or rejects. What follows the settling of a request without a   *)
(* further request (the return through the async functions, the reaction   *)
(* of Promise.all, the rest of execute) runs before any other request      *)
(* settles, and is part of the same step.                                  *)
(***************************************************************************)

\* agentQueueId!.id or variableGroup!.id of null.
NullIdError == [name |-> "TypeError", message |-> <<"Cannot read properties of null">>]

\* A request of the AzureClient method `call`, sent by the authorization `by`.
Request(by, call) == [by |-> by, call |-> call]

AuthInit ==
    /\ authPc = "begin"
    /\ groupPc = "idle"
    /\ poolPc = "idle"
    /\ promiseAll = [state |-> "pending"]
    /\ authRequests = << >>
    /\ authLog = << >>
    /\ authOutcome = "running"
    /\ authError = NoError
    /\ WorkflowIdle
    /\ PollerIdle
    /\ RetrierIdle
    /\ PureIdle
    /\ ScannerIdle
    /\ LookupIdle
    /\ RefetchIdle
    /\ ListingIdle
    /\ StrategyIdle

\* Variant of Auth_Join: the promise is fulfilled as soon as one of the two is.
Auth_Join_FirstWins(group, pool, reason) ==
    IF promiseAll.state # "pending"
    THEN UNCHANGED <<authPc, promiseAll, authLog, authOutcome, authError>>
    ELSE IF "rejected" \in {group, pool}
    THEN /\ promiseAll' = [state |-> "rejected", reason |-> reason]
         /\ authPc' = "done"
         /\ authOutcome' = "thrown"
         /\ authError' = reason
         /\ UNCHANGED authLog
    ELSE IF "resolved" \in {group, pool}
    THEN /\ promiseAll' = [state |-> "fulfilled"]
         /\ authPc' = "done"
         /\ authLog' = Append(authLog, "Completed secrets addition")
         /\ authOutcome' = "returned"
         /\ UNCHANGED authError
    ELSE UNCHANGED <<authPc, promiseAll, authLog, authOutcome, authError>>

\* await Promise.all([...]) and what follows it, with the two authorizations
\* at `group` and `pool`, one of them just settled (with `reason` if it
\* rejected). A promise that is settled stays as it is. The first rejection
\* rejects the promise, and the await throws it out of execute; the promise
\* is fulfilled when both are resolved, and then logComplete runs and
\* execute returns.
Auth_Join(group, pool, reason) ==
    IF promiseAll.state # "pending"
    THEN UNCHANGED <<authPc, promiseAll, authLog, authOutcome, authError>>
    ELSE IF "rejected" \in {group, pool}
    THEN /\ promiseAll' = [state |-> "rejected", reason |-> reason]
         /\ authPc' = "done"
         /\ authOutcome' = "thrown"
         /\ authError' = reason
         /\ UNCHANGED authLog
    ELSE IF group = "resolved" /\ pool = "resolved"
    THEN /\ promiseAll' = [state |-> "fulfilled"]
         /\ authPc' = "done"
         /\ authLog' = Append(authLog, "Completed secrets addition")
         /\ authOutcome' = "returned"
         /\ UNCHANGED authError
    ELSE UNCHANGED <<authPc, promiseAll, authLog, authOutcome, authError>>

\* this.logStart('secrets addition'); ensureServicesInitialized is called.
Auth_Begin ==
    /\ authPc = "begin"
    /\ authLog' = Append(authLog, "Starting secrets addition")
    /\ authPc' = "ensureServicesInitialized"
    /\ UNCHANGED <<workflow, poller, retrier, pure, scanner, lookup, refetch, listing, strategy,
                   authRequests, groupPc, poolPc, promiseAll, authOutcome, authError>>

\* The services are there: authorizeForVariableGroup() and then
\* authorizePipelineForAgentPool() are called, each runs up to its first
\* request, and Promise.all is awaited.
Auth_EnsureSettles ==
    /\ authPc = "ensureServicesInitialized"
    /\ authPc' = "all"
    /\ groupPc' = "getPipelineIdByName"
    /\ poolPc' = "getPipelineIdByName"
    /\ authRequests' = <<Request("authorizePipelineForVariableGroup", "getPipelineIdByName"),
                         Request("authorizePipelineForAgentPool", "getPipelineIdByName")>>
    /\ UNCHANGED <<workflow, poller, retrier, pure, scanner, lookup, refetch, listing, strategy,
                   promiseAll, authLog, authOutcome, authError>>

\* ensureServicesInitialized rejects: execute rejects, nothing was started.
Auth_EnsureRejects ==
    /\ authPc = "ensureServicesInitialized"
    /\ authPc' = "done"
    /\ authOutcome' = "thrown"
    /\ authError' = Rejection("ensureServicesInitialized")
    /\ UNCHANGED <<workflow, poller, retrier, pure, scanner, lookup, refetch, listing, strategy,
                   authRequests, groupPc, poolPc, promiseAll, authLog>>

\* authorizePipelineForVariableGroup: the pipeline id (a number or null)
\* arrives, the variable group is asked for.
Group_GetPipelineIdSettles ==
    /\ groupPc = "getPipelineIdByName"
    /\ groupPc' = "getVariableGroupByName"
    /\ authRequests' = Append(authRequests, Request("authorizePipelineForVariableGroup",
                                                    "getVariableGroupByName"))
    /\ UNCHANGED <<workflow, poller, retrier, pure, scanner, lookup, refetch, listing, strategy,
                   authPc, poolPc, promiseAll, authLog, authOutcome, authError>>

\* The variable group arrives, and the authorization is requested; or null
\* arrives, and variableGroup!.id throws.
Group_GetVariableGroupSettles ==
    /\ groupPc = "getVariableGroupByName"
    /\ \E variableGroup \in {"group", "null"} :
        IF variableGroup = "null"
        THEN /\ groupPc' = "rejected"
             /\ Auth_Join("rejected", poolPc, NullIdError)
             /\ UNCHANGED authRequests
        ELSE /\ groupPc' = "authorizePipelineForVariableGroup"
             /\ authRequests' = Append(authRequests,
                                       Request("authorizePipelineForVariableGroup",
                                               "authorizePipelineForVariableGroup"))
             /\ UNCHANGED <<authPc, promiseAll, authLog, authOutcome, authError>>
    /\ UNCHANGED <<workflow, poller, retrier, pure, scanner, lookup, refetch, listing, strategy,
                   poolPc>>

\* The authorization for the variable group is granted.
Group_AuthorizeSettles ==
    /\ groupPc = "authorizePipelineForVariableGroup"
    /\ groupPc' = "resolved"
    /\ Auth_Join("resolved", poolPc, NoError)
    /\ UNCHANGED <<workflow, poller, retrier, pure, scanner, lookup, refetch, listing, strategy,
                   authRequests, poolPc>>

\* A request of authorizePipelineForVariableGroup fails.
Group_RequestRejects ==
    /\ groupPc \in {"getPipelineIdByName", "getVariableGroupByName",
                    "authorizePipelineForVariableGroup"}
    /\ groupPc' = "rejected"
    /\ Auth_Join("rejected", poolPc, Rejection(groupPc))
    /\ UNCHANGED <<workflow, poller, retrier, pure, scanner, lookup, refetch, listing, strategy,
                   authRequests, poolPc>>

authorizePipelineForVariableGroup ==
    \/ Group_GetPipelineIdSettles
    \/ Group_GetVariableGroupSettles
    \/ Group_AuthorizeSettles
    \/ Group_RequestRejects

\* authorizePipelineForAgentPool: the pipeline id arrives, the agent queue
\* is asked for.
Pool_GetPipelineIdSettles ==
    /\ poolPc = "getPipelineIdByName"
    /\ poolPc' = "getAgentQueueByName"
    /\ authRequests' = Append(authRequests, Request("authorizePipelineForAgentPool",
                                                    "getAgentQueueByName"))
    /\ UNCHANGED <<workflow, poller, retrier, pure, scanner, lookup, refetch, listing, strategy,
                   authPc, groupPc, promiseAll, authLog, authOutcome, authError>>

\* The agent queue arrives, and the authorization is requested; or null
\* arrives, and agentQueueId!.id throws.
Pool_GetAgentQueueSettles ==
    /\ poolPc = "getAgentQueueByName"
    /\ \E agentQueueId \in {"queue", "null"} :
        IF agentQueueId = "null"
        THEN /\ poolPc' = "rejected"
             /\ Auth_Join(groupPc, "rejected", NullIdError)
             /\ UNCHANGED authRequests
        ELSE /\ poolPc' = "authorizePipelineForAgentPool"
             /\ authRequests' = Append(authRequests,
                                       Request("authorizePipelineForAgentPool",
                                               "authorizePipelineForAgentPool"))
             /\ UNCHANGED <<authPc, promiseAll, authLog, authOutcome, authError>>
    /\ UNCHANGED <<workflow, poller, retrier, pure, scanner, lookup, refetch, listing, strategy,
                   groupPc>>

\* The authorization for the agent pool is granted.
Pool_AuthorizeSettles ==
    /\ poolPc = "authorizePipelineForAgentPool"
    /\ poolPc' = "resolved"
    /\ Auth_Join(groupPc, "resolved", NoError)
    /\ UNCHANGED <<workflow, poller, retrier, pure, scanner, lookup, refetch, listing, strategy,
                   authRequests, groupPc>>

\* A request of authorizePipelineForAgentPool fails.
Pool_RequestRejects ==
    /\ poolPc \in {"getPipelineIdByName", "getAgentQueueByName",
                   "authorizePipelineForAgentPool"}
    /\ poolPc' = "rejected"
    /\ Auth_Join(groupPc, "rejected", Rejection(poolPc))
    /\ UNCHANGED <<workflow, poller, retrier, pure, scanner, lookup, refetch, listing, strategy,
                   authRequests, groupPc>>

authorizePipelineForAgentPool ==
    \/ Pool_GetPipelineIdSettles
    \/ Pool_GetAgentQueueSettles
    \/ Pool_AuthorizeSettles
    \/ Pool_RequestRejects

AuthNext ==
    \/ Auth_Begin
    \/ Auth_EnsureSettles
    \/ Auth_EnsureRejects
    \/ authorizePipelineForVariableGroup
    \/ authorizePipelineForAgentPool

AuthSpec == AuthInit /\ [][AuthNext]_vars

\* C34: execute runs the two authorizations concurrently and joins them: once
\* Promise.all is awaited both are under way and their requests settle in any
\* order; execute returns, and has logged completion, only when both
\* authorizations have resolved, and it has failed whenever one of them has.
C34_BothAuthorizationsJoined ==
    /\ authPc = "all" => groupPc # "idle" /\ poolPc # "idle"
    /\ authOutcome = "returned" => groupPc = "resolved" /\ poolPc = "resolved"
    /\ (\E i \in 1..Len(authLog) : authLog[i] = "Completed secrets addition")
        => /\ groupPc = "resolved"
           /\ poolPc = "resolved"
           /\ authOutcome = "returned"
    /\ "rejected" \in {groupPc, poolPc} => authOutcome = "thrown"
    /\ groupPc = "resolved" /\ poolPc = "resolved" => authOutcome = "returned"

\* execute has returned with the two authorizations interleaved: the agent
\* pool asked for its queue before the variable group asked for its group,
\* the opposite of the order they were started in.
C34_Witness ==
    /\ authOutcome = "returned"
    /\ authRequests[3].by = "authorizePipelineForAgentPool"
    /\ groupPc = "resolved"
    /\ poolPc = "resolved"
    /\ authLog = <<"Starting secrets addition", "Completed secrets addition">>

(***************************************************************************)
(* AzureCIPostCreateActionStrategy.execute. The sources hold two copies of *)
(* the class: azureCIPostCreateActionStrategy.ts 18-41, whose list has     *)
(* three commands, and src/unnamed/part_001 90-114, whose list leaves      *)
(* ModifyAzureFiles out (commented out, its import removed). How the       *)
(* execute of each command settles is the environment's choice, drawn when *)
(* the run starts.                                                         *)
(***************************************************************************)

StrategyFile == "azureCIPostCreateActionStrategy.ts"
StrategyPart == "part_001"

\* const commands = [...]
Commands(copy) ==
    IF copy = StrategyFile
    THEN <<"AddAzureSecrets", "ModifyAzureFiles", "CreateAzurePipelines">>
    ELSE <<"AddAzureSecrets", "CreateAzurePipelines">>

\* What the execute of a command may reject with: an Error, a string, or an
\* object that is no Error.
Thrown == {Error(<<"Request failed with status code 500">>),
           [name |-> "string", message |-> <<"ETIMEDOUT">>],
           [name |-> "object", message |-> <<"code 500">>]}

\* error instanceof Error ? error.message : String(error)
ErrorText(e) ==
    IF e.name = "Error" THEN e.message
    ELSE IF e.name = "string" THEN e.message
    ELSE <<"[object Object]">>

PostCreationFailed(e) == Error(<<"Azure post-creation actions failed: ">> \o ErrorText(e))

StrategyInit ==
    /\ strategyCopy \in {StrategyFile, StrategyPart}
    /\ commandPlan \in [{Commands(strategyCopy)[i] : i \in 1..Len(Commands(strategyCopy))}
                            -> {NoError} \cup Thrown]
    /\ commandsStarted = << >>
    /\ strategyPc = "begin"
    /\ strategyLog = << >>
    /\ strategyOutcome = "running"
    /\ strategyError = NoError
    /\ WorkflowIdle
    /\ PollerIdle
    /\ RetrierIdle
    /\ PureIdle
    /\ ScannerIdle
    /\ LookupIdle
    /\ RefetchIdle
    /\ ListingIdle
    /\ AuthIdle

\* The command whose execute is awaited.
AwaitedCommand == commandsStarted[Len(commandsStarted)]

\* console.log of the entry, the commands are built, and the loop calls the
\* execute of the first.
Strategy_Begin ==
    /\ strategyPc = "begin"
    /\ strategyLog' = <<IF strategyCopy = StrategyFile
                        THEN "Executing Azure post-creation actions"
                        ELSE "Executing Jenkins post-creation actions">>
    /\ commandsStarted' = <<Commands(strategyCopy)[1]>>
    /\ strategyPc' = "execute"
    /\ UNCHANGED <<workflow, poller, retrier, pure, scanner, lookup, refetch, listing, auth,
                   strategyCopy, commandPlan, strategyOutcome, strategyError>>

\* The execute awaited resolves: the loop calls the execute of the next
\* command, or, after the last, the completion is logged and execute returns.
Strategy_CommandSettles ==
    /\ strategyPc = "execute"
    /\ commandPlan[AwaitedCommand] = NoError
    /\ IF Len(commandsStarted) < Len(Commands(strategyCopy))
       THEN /\ commandsStarted' =
                    Append(commandsStarted, Commands(strategyCopy)[Len(commandsStarted) + 1])
            /\ UNCHANGED <<strategyPc, strategyLog, strategyOutcome>>
       ELSE /\ strategyPc' = "done"
            /\ strategyLog' = Append(strategyLog,
                                     "Azure post-creation actions completed successfully")
            /\ strategyOutcome' = "returned"
            /\ UNCHANGED commandsStarted
    /\ UNCHANGED <<workflow, poller, retrier, pure, scanner, lookup, refetch, listing, auth,
                   strategyCopy, commandPlan, strategyError>>

\* Variant of Strategy_CommandRejects: the failure is logged and the loop goes
\* on with the next command.
Strategy_CommandRejects_GoesOn ==
    /\ strategyPc = "execute"
    /\ commandPlan[AwaitedCommand] # NoError
    /\ strategyLog' = Append(strategyLog, "Error executing Azure post-creation actions")
    /\ IF Len(commandsStarted) < Len(Commands(strategyCopy))
       THEN /\ commandsStarted' =
                    Append(commandsStarted, Commands(strategyCopy)[Len(commandsStarted) + 1])
            /\ UNCHANGED <<strategyPc, strategyOutcome, strategyError>>
       ELSE /\ strategyPc' = "done"
            /\ strategyOutcome' = "thrown"
            /\ strategyError' = PostCreationFailed(commandPlan[AwaitedCommand])
            /\ UNCHANGED commandsStarted
    /\ UNCHANGED <<workflow, poller, retrier, pure, scanner, lookup, refetch, listing, auth,
                   strategyCopy, commandPlan>>

\* The execute awaited rejects: the catch block logs the error and throws
\* new Error(`Azure post-creation actions failed: ${...}`).
Strategy_CommandRejects ==
    /\ strategyPc = "execute"
    /\ commandPlan[AwaitedCommand] # NoError
    /\ strategyPc' = "done"
    /\ strategyLog' = Append(strategyLog, "Error executing Azure post-creation actions")
    /\ strategyOutcome' = "thrown"
    /\ strategyError' = PostCreationFailed(commandPlan[AwaitedCommand])
    /\ UNCHANGED <<workflow, poller, retrier, pure, scanner, lookup, refetch, listing, auth,
                   strategyCopy, commandPlan, commandsStarted>>

StrategyNext ==
    \/ Strategy_Begin
    \/ Strategy_CommandSettles
    \/ Strategy_CommandRejects

StrategySpec == StrategyInit /\ [][StrategyNext]_vars

\* The commands started are the first ones of `list`, in its order.
StartedInOrderOf(list) ==
    /\ Len(commandsStarted) <= Len(list)
    /\ \A i \in 1..Len(commandsStarted) : commandsStarted[i] = list[i]

\* Each command was started only after the one before it completed; a command
\* that failed is the last one started, and execute has failed with the
\* prefixed message; execute returns only when every command of `list` ran.
FailFastOver(list) ==
    /\ \A i \in 1..(Len(commandsStarted) - 1) : commandPlan[commandsStarted[i]] = NoError
    /\ \A i \in 1..Len(commandsStarted) :
        (strategyPc = "done" /\ commandPlan[commandsStarted[i]] # NoError)
            => /\ i = Len(commandsStarted)
               /\ strategyOutcome = "thrown"
               /\ strategyError.name = "Error"
               /\ startsWith(strategyError.message, <<"Azure post-creation actions failed: ">>)
    /\ strategyOutcome = "returned"
        => /\ commandsStarted = list
           /\ \A i \in 1..Len(list) : commandPlan[list[i]] = NoError
    /\ strategyOutcome = "thrown" => commandPlan[AwaitedCommand] # NoError

\* C35 as stated: execute runs AddAzureSecrets, then ModifyAzureFiles, then
\* CreateAzurePipelines, each started only after the previous one completed;
\* if a command fails, no later command is executed and execute fails with an
\* error whose message is prefixed 'Azure post-creation actions failed: '.
C35_ThreeCommandsInOrder ==
    /\ StartedInOrderOf(<<"AddAzureSecrets", "ModifyAzureFiles", "CreateAzurePipelines">>)
    /\ FailFastOver(<<"AddAzureSecrets", "ModifyAzureFiles", "CreateAzurePipelines">>)

\* C35, amended: execute runs the commands of its list sequentially in list
\* order, each started only after the previous one completed: AddAzureSecrets,
\* ModifyAzureFiles, CreateAzurePipelines in azureCIPostCreateActionStrategy.ts,
\* and AddAzureSecrets, CreateAzurePipelines in the copy of part_001; if a
\* command fails, no later command is executed and execute fails with an error
\* whose message is prefixed 'Azure post-creation actions failed: '.
C35_ListedCommandsInOrder ==
    /\ strategyCopy = StrategyFile
        => StartedInOrderOf(<<"AddAzureSecrets", "ModifyAzureFiles", "CreateAzurePipelines">>)
    /\ strategyCopy = StrategyPart
        => StartedInOrderOf(<<"AddAzureSecrets", "CreateAzurePipelines">>)
    /\ strategyCopy # "none" => FailFastOver(Commands(strategyCopy))

\* A command after the first failed with a value that is no Error, and execute
\* failed without starting the command after it.
C35_Witness ==
    /\ strategyCopy = StrategyFile
    /\ commandsStarted = <<"AddAzureSecrets", "ModifyAzureFiles">>
    /\ commandPlan["ModifyAzureFiles"].name = "object"
    /\ strategyOutcome = "thrown"
    /\ strategyError = Error(<<"Azure post-creation actions failed: ", "[object Object]">>)

====
